---- MODULE Spec2Model ----
(***************************************************************************)
(* Session and dispatch logic of the Telegram relay bot: src/bot.py with   *)
(* the gateway client src/cloudflare_ai.py and the log table src/db.py.    *)
(*                                                                         *)
(* A Python str is modelled as its run-length encoding: a sequence of runs *)
(* [c |-> character, n |-> repetitions], adjacent runs carrying different  *)
(* characters.  Length, slicing, concatenation, lower() and startswith()   *)
(* are computed on that encoding, so texts of several thousand characters  *)
(* (longer than one Telegram message) stay small.  An emoji of the source  *)
(* is written as the single character "*".                                 *)
(***************************************************************************)
EXTENDS Integers, Sequences, FiniteSets, TLC

VARIABLES user_histories, user_settings, logged, run, outbox, calls,
          appended, events, faults

vars == <<user_histories, user_settings, logged, run, outbox, calls,
          appended, events, faults>>

----------------------------------------------------------------------------
(* Python str operations on run-length encoded texts *)

\* Recursions split their argument in halves, so that their depth stays
\* logarithmic in the number of runs.

RECURSIVE TLen(_)
TLen(t) ==
    IF Len(t) = 0 THEN 0
    ELSE IF Len(t) = 1 THEN t[1].n
    ELSE TLen(SubSeq(t, 1, Len(t) \div 2))
           + TLen(SubSeq(t, Len(t) \div 2 + 1, Len(t)))

TCat(a, b) ==
    IF a = <<>> THEN b
    ELSE IF b = <<>> THEN a
    ELSE IF a[Len(a)].c = b[1].c
         THEN SubSeq(a, 1, Len(a) - 1)
                \o <<[c |-> b[1].c, n |-> a[Len(a)].n + b[1].n]>>
                \o Tail(b)
         ELSE a \o b

\* the text of a sequence of characters
RECURSIVE Str(_)
Str(cs) ==
    IF Len(cs) = 0 THEN <<>>
    ELSE IF Len(cs) = 1 THEN <<[c |-> cs[1], n |-> 1]>>
    ELSE TCat(Str(SubSeq(cs, 1, Len(cs) \div 2)),
              Str(SubSeq(cs, Len(cs) \div 2 + 1, Len(cs))))

\* ch * k
Rep(ch, k) ==
    IF k <= 0 THEN <<>> ELSE <<[c |-> ch, n |-> k]>>

\* the number of leading runs of t that lie within its first k characters
WholeRuns(t, k) ==
    LET fit == {j \in 0..Len(t) : TLen(SubSeq(t, 1, j)) <= k}
    IN  CHOOSE j \in fit : \A other \in fit : other <= j

\* text[:k]
TTake(t, k) ==
    IF k <= 0 THEN <<>>
    ELSE LET m == WholeRuns(t, k)
             rest == k - TLen(SubSeq(t, 1, m))
         IN  IF m = Len(t) \/ rest = 0
             THEN SubSeq(t, 1, m)
             ELSE SubSeq(t, 1, m) \o <<[c |-> t[m + 1].c, n |-> rest]>>

\* text[k:]
TDrop(t, k) ==
    IF k <= 0 THEN t
    ELSE LET m == WholeRuns(t, k)
             rest == k - TLen(SubSeq(t, 1, m))
         IN  IF m = Len(t)
             THEN <<>>
             ELSE <<[c |-> t[m + 1].c, n |-> t[m + 1].n - rest]>>
                    \o SubSeq(t, m + 2, Len(t))

\* text[i:j] for 0 <= i <= j
Slice(t, i, j) ==
    TTake(TDrop(t, i), j - i)

\* str.lower() on the ASCII letters
UPPER == ("A" :> "a") @@ ("B" :> "b") @@ ("C" :> "c") @@ ("D" :> "d") @@
         ("E" :> "e") @@ ("F" :> "f") @@ ("G" :> "g") @@ ("H" :> "h") @@
         ("I" :> "i") @@ ("J" :> "j") @@ ("K" :> "k") @@ ("L" :> "l") @@
         ("M" :> "m") @@ ("N" :> "n") @@ ("O" :> "o") @@ ("P" :> "p") @@
         ("Q" :> "q") @@ ("R" :> "r") @@ ("S" :> "s") @@ ("T" :> "t") @@
         ("U" :> "u") @@ ("V" :> "v") @@ ("W" :> "w") @@ ("X" :> "x") @@
         ("Y" :> "y") @@ ("Z" :> "z")

LowerChar(ch) ==
    IF ch \in DOMAIN UPPER THEN UPPER[ch] ELSE ch

RECURSIVE Lower(_)
Lower(t) ==
    IF Len(t) = 0 THEN <<>>
    ELSE IF Len(t) = 1 THEN <<[c |-> LowerChar(t[1].c), n |-> t[1].n]>>
    ELSE TCat(Lower(SubSeq(t, 1, Len(t) \div 2)),
              Lower(SubSeq(t, Len(t) \div 2 + 1, Len(t))))

StartsWith(t, p) ==
    TTake(t, TLen(p)) = p

----------------------------------------------------------------------------
(* Constants of the program *)

MAX_HISTORY_LENGTH == 50
MAX_MESSAGE_LENGTH == 4096

TRIGGER ==
    Str(<<"g", "e", "n", "e", "r", "a", "t", "e">>)

ERROR_PREFIX ==
    Str(<<"E", "r", "r", "o", "r", ":", " ">>)

NO_RESPONSE ==
    Str(<<"N", "o", " ", "r", "e", "s", "p", "o", "n", "s", "e", ".">>)

USE_TRANSCRIBE ==
    Str(<<"U", "s", "e", " ", "t", "r", "a", "n", "s", "c", "r", "i", "b",
          "e", "_", "a", "u", "d", "i", "o", "(", ")", " ", "f", "o", "r",
          " ", "a", "u", "d", "i", "o", " ", "i", "n", "p", "u", "t", ".">>)

USE_IMAGE_TO_TEXT ==
    Str(<<"U", "s", "e", " ", "i", "m", "a", "g", "e", "_", "t", "o", "_",
          "t", "e", "x", "t", "(", ")", " ", "f", "o", "r", " ", "i", "m",
          "a", "g", "e", " ", "i", "n", "p", "u", "t", ".">>)

MESSAGE_ERROR ==
    Str(<<"*", " ", "S", "o", "r", "r", "y", ",", " ", "s", "o", "m", "e",
          "t", "h", "i", "n", "g", " ", "w", "e", "n", "t", " ", "w", "r",
          "o", "n", "g", ".", " ", "P", "l", "e", "a", "s", "e", " ", "t",
          "r", "y", " ", "a", "g", "a", "i", "n", ".">>)

CLEARED ==
    Str(<<"*", " ", "C", "h", "a", "t", " ", "h", "i", "s", "t", "o", "r",
          "y", " ", "c", "l", "e", "a", "r", "e", "d", "!">>)

CLEARED_LOG ==
    Str(<<"C", "h", "a", "t", " ", "h", "i", "s", "t", "o", "r", "y", " ",
          "c", "l", "e", "a", "r", "e", "d">>)

CLEAR_ERROR ==
    Str(<<"F", "a", "i", "l", "e", "d", " ", "t", "o", " ", "c", "l", "e",
          "a", "r", " ", "c", "h", "a", "t", " ", "h", "i", "s", "t", "o",
          "r", "y", ".">>)

BUTTON_ERROR ==
    Str(<<"A", "n", " ", "e", "r", "r", "o", "r", " ", "o", "c", "c", "u",
          "r", "r", "e", "d", " ", "w", "h", "i", "l", "e", " ", "p", "r",
          "o", "c", "e", "s", "s", "i", "n", "g", " ", "y", "o", "u", "r",
          " ", "s", "e", "l", "e", "c", "t", "i", "o", "n", ".">>)

MODE_SWITCHED ==
    Str(<<"M", "o", "d", "e", " ", "s", "w", "i", "t", "c", "h", "e", "d",
          " ", "t", "o", ":", " ">>)

\* bot.py 64-84
WELCOME_MSG ==
    Str(<<"*", " ", "W", "e", "l", "c", "o", "m", "e", " ", "t", "o", " ",
          "A", "d", "v", "a", "n", "c", "e", "d", " ", "A", "I", " ", "A",
          "s", "s", "i", "s", "t", "a", "n", "t", "!", "\n", "\n", "*", " ",
          "C", "o", "m", "m", "a", "n", "d", "s", ":", "\n", "/", "s", "t",
          "a", "r", "t", " ", "-", " ", "S", "t", "a", "r", "t", " ", "b",
          "o", "t", "\n", "/", "h", "e", "l", "p", " ", "-", " ", "S", "h",
          "o", "w", " ", "h", "e", "l", "p", "\n", "/", "c", "l", "e", "a",
          "r", " ", "-", " ", "C", "l", "e", "a", "r", " ", "c", "h", "a",
          "t", " ", "h", "i", "s", "t", "o", "r", "y", "\n", "/", "s", "e",
          "t", "t", "i", "n", "g", "s", " ", "-", " ", "B", "o", "t", " ",
          "s", "e", "t", "t", "i", "n", "g", "s", "\n", "/", "s", "t", "a",
          "t", "s", " ", "-", " ", "U", "s", "a", "g", "e", " ", "s", "t",
          "a", "t", "i", "s", "t", "i", "c", "s", "\n", "/", "m", "o", "d",
          "e", " ", "-", " ", "C", "h", "a", "n", "g", "e", " ", "A", "I",
          " ", "m", "o", "d", "e", "\n", "/", "t", "r", "a", "n", "s", "l",
          "a", "t", "e", " ", "<", "t", "e", "x", "t", ">", " ", "-", " ",
          "T", "r", "a", "n", "s", "l", "a", "t", "e", " ", "t", "e", "x",
          "t", "\n", "/", "s", "u", "m", "m", "a", "r", "i", "z", "e", " ",
          "<", "t", "e", "x", "t", ">", " ", "-", " ", "S", "u", "m", "m",
          "a", "r", "i", "z", "e", " ", "t", "e", "x", "t", "\n", "/", "c",
          "o", "d", "e", " ", "<", "p", "r", "o", "m", "p", "t", ">", " ",
          "-", " ", "G", "e", "n", "e", "r", "a", "t", "e", " ", "c", "o",
          "d", "e", "\n", "\n", "*", " ", "F", "e", "a", "t", "u", "r", "e",
          "s", ":", "\n", "*", " ", "A", "d", "v", "a", "n", "c", "e", "d",
          " ", "C", "h", "a", "t", " ", "w", "i", "t", "h", " ", "C", "o",
          "n", "t", "e", "x", "t", "\n", "*", " ", "I", "m", "a", "g", "e",
          " ", "G", "e", "n", "e", "r", "a", "t", "i", "o", "n", "\n", "*",
          " ", "V", "o", "i", "c", "e", " ", "T", "r", "a", "n", "s", "c",
          "r", "i", "p", "t", "i", "o", "n", "\n", "*", " ", "I", "m", "a",
          "g", "e", " ", "A", "n", "a", "l", "y", "s", "i", "s", "\n", "*",
          " ", "C", "o", "d", "e", " ", "G", "e", "n", "e", "r", "a", "t",
          "i", "o", "n", "\n", "*", " ", "T", "e", "x", "t", " ", "T", "r",
          "a", "n", "s", "l", "a", "t", "i", "o", "n", "\n", "*", " ", "T",
          "e", "x", "t", " ", "S", "u", "m", "m", "a", "r", "i", "z", "a",
          "t", "i", "o", "n">>)

\* bot.py 95 and 261
COMMAND_ERROR ==
    Str(<<"A", "n", " ", "e", "r", "r", "o", "r", " ", "o", "c", "c", "u",
          "r", "r", "e", "d", ".", " ", "P", "l", "e", "a", "s", "e", " ",
          "t", "r", "y", " ", "a", "g", "a", "i", "n", ".">>)

\* bot.py 237-256
HELP_TEXT ==
    Str(<<"*", " ", "A", "v", "a", "i", "l", "a", "b", "l", "e", " ", "C",
          "o", "m", "m", "a", "n", "d", "s", ":", "\n", "\n", "/", "s", "t",
          "a", "r", "t", " ", "-", " ", "S", "t", "a", "r", "t", " ", "b",
          "o", "t", "\n", "/", "h", "e", "l", "p", " ", "-", " ", "S", "h",
          "o", "w", " ", "t", "h", "i", "s", " ", "m", "e", "s", "s", "a",
          "g", "e", "\n", "/", "c", "l", "e", "a", "r", " ", "-", " ", "C",
          "l", "e", "a", "r", " ", "c", "h", "a", "t", " ", "h", "i", "s",
          "t", "o", "r", "y", "\n", "/", "s", "e", "t", "t", "i", "n", "g",
          "s", " ", "-", " ", "B", "o", "t", " ", "s", "e", "t", "t", "i",
          "n", "g", "s", "\n", "/", "s", "t", "a", "t", "s", " ", "-", " ",
          "U", "s", "a", "g", "e", " ", "s", "t", "a", "t", "i", "s", "t",
          "i", "c", "s", "\n", "/", "m", "o", "d", "e", " ", "-", " ", "C",
          "h", "a", "n", "g", "e", " ", "A", "I", " ", "m", "o", "d", "e",
          "\n", "/", "t", "r", "a", "n", "s", "l", "a", "t", "e", " ", "<",
          "t", "e", "x", "t", ">", " ", "-", " ", "T", "r", "a", "n", "s",
          "l", "a", "t", "e", " ", "t", "e", "x", "t", "\n", "/", "s", "u",
          "m", "m", "a", "r", "i", "z", "e", " ", "<", "t", "e", "x", "t",
          ">", " ", "-", " ", "S", "u", "m", "m", "a", "r", "i", "z", "e",
          " ", "t", "e", "x", "t", "\n", "/", "c", "o", "d", "e", " ", "<",
          "p", "r", "o", "m", "p", "t", ">", " ", "-", " ", "G", "e", "n",
          "e", "r", "a", "t", "e", " ", "c", "o", "d", "e", "\n", "\n", "*",
          " ", "F", "e", "a", "t", "u", "r", "e", "s", ":", "\n", "*", " ",
          "S", "e", "n", "d", " ", "t", "e", "x", "t", " ", "m", "e", "s",
          "s", "a", "g", "e", "s", " ", "f", "o", "r", " ", "c", "h", "a",
          "t", "\n", "*", " ", "T", "y", "p", "e", " ", "'", "g", "e", "n",
          "e", "r", "a", "t", "e", " ", "i", "m", "a", "g", "e", " ", ".",
          ".", ".", "'", " ", "f", "o", "r", " ", "i", "m", "a", "g", "e",
          " ", "c", "r", "e", "a", "t", "i", "o", "n", "\n", "*", " ", "S",
          "e", "n", "d", " ", "v", "o", "i", "c", "e", " ", "m", "e", "s",
          "s", "a", "g", "e", "s", " ", "f", "o", "r", " ", "t", "r", "a",
          "n", "s", "c", "r", "i", "p", "t", "i", "o", "n", "\n", "*", " ",
          "S", "e", "n", "d", " ", "i", "m", "a", "g", "e", "s", " ", "f",
          "o", "r", " ", "a", "n", "a", "l", "y", "s", "i", "s", "\n", "*",
          " ", "U", "s", "e", " ", "/", "c", "o", "d", "e", " ", "f", "o",
          "r", " ", "p", "r", "o", "g", "r", "a", "m", "m", "i", "n", "g",
          " ", "h", "e", "l", "p", "\n", "*", " ", "U", "s", "e", " ", "/",
          "t", "r", "a", "n", "s", "l", "a", "t", "e", " ", "f", "o", "r",
          " ", "t", "r", "a", "n", "s", "l", "a", "t", "i", "o", "n", "s",
          "\n", "*", " ", "U", "s", "e", " ", "/", "s", "u", "m", "m", "a",
          "r", "i", "z", "e", " ", "f", "o", "r", " ", "t", "e", "x", "t",
          " ", "s", "u", "m", "m", "a", "r", "i", "e", "s">>)

\* bot.py 129-131, up to the mode name
SETTINGS_HEAD ==
    Str(<<"*", " ", "C", "u", "r", "r", "e", "n", "t", " ", "S", "e", "t",
          "t", "i", "n", "g", "s", ":", "\n", "M", "o", "d", "e", ":",
          " ">>)

\* bot.py 131
SETTINGS_TAIL ==
    Str(<<"\n", "\n", "U", "s", "e", " ", "/", "m", "o", "d", "e", " ", "t",
          "o", " ", "c", "h", "a", "n", "g", "e", " ", "t", "h", "e", " ",
          "c", "u", "r", "r", "e", "n", "t", " ", "m", "o", "d", "e", ".">>)

\* bot.py 136
SETTINGS_ERROR ==
    Str(<<"E", "r", "r", "o", "r", " ", "f", "e", "t", "c", "h", "i", "n",
          "g", " ", "s", "e", "t", "t", "i", "n", "g", "s", ".">>)

\* bot.py 151-154
STATS_HEAD ==
    Str(<<"*", " ", "Y", "o", "u", "r", " ", "U", "s", "a", "g", "e", " ",
          "S", "t", "a", "t", "i", "s", "t", "i", "c", "s", ":", "\n", "\n",
          "T", "o", "t", "a", "l", " ", "m", "e", "s", "s", "a", "g", "e",
          "s", ":", " ">>)

STATS_YOURS ==
    Str(<<"\n", "Y", "o", "u", "r", " ", "m", "e", "s", "s", "a", "g", "e",
          "s", ":", " ">>)

STATS_BOT ==
    Str(<<"\n", "B", "o", "t", " ", "r", "e", "s", "p", "o", "n", "s", "e",
          "s", ":", " ">>)

NEWLINE ==
    Str(<<"\n">>)

\* bot.py 159
STATS_ERROR ==
    Str(<<"E", "r", "r", "o", "r", " ", "f", "e", "t", "c", "h", "i", "n",
          "g", " ", "s", "t", "a", "t", "i", "s", "t", "i", "c", "s", ".">>)

\* bot.py 169-177
TRANSLATE_USAGE ==
    Str(<<"P", "l", "e", "a", "s", "e", " ", "p", "r", "o", "v", "i", "d",
          "e", " ", "t", "e", "x", "t", " ", "t", "o", " ", "t", "r", "a",
          "n", "s", "l", "a", "t", "e", ".">>)

TRANSLATE_PROMPT ==
    Str(<<"T", "r", "a", "n", "s", "l", "a", "t", "e", " ", "t", "h", "e",
          " ", "f", "o", "l", "l", "o", "w", "i", "n", "g", " ", "t", "e",
          "x", "t", " ", "t", "o", " ", "E", "n", "g", "l", "i", "s", "h",
          ":", " ">>)

TRANSLATE_ERROR ==
    Str(<<"T", "r", "a", "n", "s", "l", "a", "t", "i", "o", "n", " ", "f",
          "a", "i", "l", "e", "d", ".">>)

\* bot.py 187-195
SUMMARIZE_USAGE ==
    Str(<<"P", "l", "e", "a", "s", "e", " ", "p", "r", "o", "v", "i", "d",
          "e", " ", "t", "e", "x", "t", " ", "t", "o", " ", "s", "u", "m",
          "m", "a", "r", "i", "z", "e", ".">>)

SUMMARIZE_PROMPT ==
    Str(<<"S", "u", "m", "m", "a", "r", "i", "z", "e", " ", "t", "h", "e",
          " ", "f", "o", "l", "l", "o", "w", "i", "n", "g", " ", "t", "e",
          "x", "t", ":", " ">>)

SUMMARIZE_ERROR ==
    Str(<<"S", "u", "m", "m", "a", "r", "i", "z", "a", "t", "i", "o", "n",
          " ", "f", "a", "i", "l", "e", "d", ".">>)

\* bot.py 205-213
CODE_USAGE ==
    Str(<<"P", "l", "e", "a", "s", "e", " ", "p", "r", "o", "v", "i", "d",
          "e", " ", "a", " ", "c", "o", "d", "e", " ", "g", "e", "n", "e",
          "r", "a", "t", "i", "o", "n", " ", "p", "r", "o", "m", "p", "t",
          ".">>)

\* the three backquotes of a code fence, written "~"
CODE_FENCE_OPEN ==
    Str(<<"~", "~", "~", "\n">>)

CODE_FENCE_CLOSE ==
    Str(<<"\n", "~", "~", "~">>)

CODE_ERROR ==
    Str(<<"C", "o", "d", "e", " ", "g", "e", "n", "e", "r", "a", "t", "i",
          "o", "n", " ", "f", "a", "i", "l", "e", "d", ".">>)

\* bot.py 283-294
VOICE_PROCESSING ==
    Str(<<"*", " ", "P", "r", "o", "c", "e", "s", "s", "i", "n", "g", " ",
          "v", "o", "i", "c", "e", " ", "m", "e", "s", "s", "a", "g", "e",
          ".", ".", ".">>)

TRANSCRIPTION_HEAD ==
    Str(<<"*", " ", "T", "r", "a", "n", "s", "c", "r", "i", "p", "t", "i",
          "o", "n", ":", "\n">>)

VOICE_LOG ==
    Str(<<"[", "V", "o", "i", "c", "e", " ", "M", "e", "s", "s", "a", "g",
          "e", "]">>)

VOICE_ERROR ==
    Str(<<"*", " ", "S", "o", "r", "r", "y", ",", " ", "c", "o", "u", "l",
          "d", "n", "'", "t", " ", "p", "r", "o", "c", "e", "s", "s", " ",
          "t", "h", "e", " ", "v", "o", "i", "c", "e", " ", "m", "e", "s",
          "s", "a", "g", "e">>)

\* bot.py 302-313
PHOTO_ANALYZING ==
    Str(<<"*", " ", "A", "n", "a", "l", "y", "z", "i", "n", "g", " ", "i",
          "m", "a", "g", "e", ".", ".", ".">>)

DESCRIPTION_HEAD ==
    Str(<<"*", " ", "I", "m", "a", "g", "e", " ", "d", "e", "s", "c", "r",
          "i", "p", "t", "i", "o", "n", ":", "\n">>)

PHOTO_LOG ==
    Str(<<"[", "I", "m", "a", "g", "e", "]">>)

PHOTO_ERROR ==
    Str(<<"*", " ", "S", "o", "r", "r", "y", ",", " ", "c", "o", "u", "l",
          "d", "n", "'", "t", " ", "a", "n", "a", "l", "y", "z", "e", " ",
          "t", "h", "e", " ", "i", "m", "a", "g", "e">>)

\* str(None), the text an f-string gives for None
NONE_TEXT ==
    Str(<<"N", "o", "n", "e">>)

\* cloudflare_ai.py 108-116
NO_IMAGE ==
    Str(<<"N", "o", " ", "i", "m", "a", "g", "e", " ", "r", "e", "t", "u",
          "r", "n", "e", "d", " ", "f", "r", "o", "m", " ", "A", "P", "I",
          ".">>)

DATA_URI ==
    Str(<<"d", "a", "t", "a", ":", "i", "m", "a", "g", "e", "/", "p", "n",
          "g", ";", "b", "a", "s", "e", "6", "4", ",">>)

IMAGE_MESSAGE_HEAD ==
    Str(<<"H", "e", "r", "e", "'", "s", " ", "y", "o", "u", "r", " ", "i",
          "m", "a", "g", "e", " ", "f", "o", "r", ":", " ", "'">>)

IMAGE_MESSAGE_TAIL ==
    Str(<<"'">>)

IMAGE_ERROR_PREFIX ==
    Str(<<"I", "m", "a", "g", "e", " ", "g", "e", "n", "e", "r", "a", "t",
          "i", "o", "n", " ", "e", "r", "r", "o", "r", ":", " ">>)

\* cloudflare_ai.py 152-154
UNABLE_TO_TRANSCRIBE ==
    Str(<<"*", " ", "U", "n", "a", "b", "l", "e", " ", "t", "o", " ", "t",
          "r", "a", "n", "s", "c", "r", "i", "b", "e", " ", "a", "u", "d",
          "i", "o", ".">>)

AUDIO_ERROR_PREFIX ==
    Str(<<"E", "r", "r", "o", "r", " ", "p", "r", "o", "c", "e", "s", "s",
          "i", "n", "g", " ", "a", "u", "d", "i", "o", ":", " ">>)

\* cloudflare_ai.py 166-168
UNABLE_TO_CAPTION ==
    Str(<<"*", " ", "U", "n", "a", "b", "l", "e", " ", "t", "o", " ", "c",
          "a", "p", "t", "i", "o", "n", " ", "i", "m", "a", "g", "e", ".">>)

PICTURE_ERROR_PREFIX ==
    Str(<<"E", "r", "r", "o", "r", " ", "p", "r", "o", "c", "e", "s", "s",
          "i", "n", "g", " ", "i", "m", "a", "g", "e", ":", " ">>)

\* value of response["data"] when the envelope carries "response": null
NONE == <<[c |-> "None", n |-> 0]>>

MODES == {"chat", "image", "voice", "analysis"}

\* callback_data of the /start keyboard, split at "_"
CALLBACK_DATA == {<<"mode", m>> : m \in MODES}

MODEL_CONFIGS ==
    [llama3           |-> [context |-> 8000,  payload_type |-> "messages"],
     qwancoder        |-> [context |-> 32768, payload_type |-> "messages"],
     bart_summarizer  |-> [context |-> 1024,  payload_type |-> "input_text"],
     whisper_stt      |-> [context |-> 4000,  payload_type |-> "audio"],
     image_captioning |-> [context |-> 2048,  payload_type |-> "image"]]

----------------------------------------------------------------------------
(* Bounds and inputs of the model *)

Users == {1, 2}

\* handlers run per behaviour
MaxEvents == 2

\* failed sends and failed commits per behaviour
MaxFaults == 1

\* exchanges already held when the model starts: 0 .. MaxPrefill
MaxPrefill == 25

PrefillCounts == {0} \cup {n \in 0..MaxPrefill : n >= MaxPrefill - 1}

\* a reply longer than one Telegram message
LONG_REPLY == Rep("a", MAX_MESSAGE_LENGTH + 1)

HELLO ==
    Str(<<"H", "e", "l", "l", "o">>)

HI_THERE ==
    Str(<<"H", "i", " ", "t", "h", "e", "r", "e">>)

CAT_REQUEST ==
    Str(<<"g", "e", "n", "e", "r", "a", "t", "e", " ", "i", "m", "a", "g",
          "e", " ", "o", "f", " ", "a", " ", "c", "a", "t">>)

HTTP_500 ==
    Str(<<"5", "0", "0", " ", "S", "e", "r", "v", "e", "r", " ", "E", "r",
          "r", "o", "r">>)


TEXTS == {HELLO, CAT_REQUEST}

REPLIES == {HI_THERE, <<>>, LONG_REPLY}

\* what the remote inference call does
REMOTE ==
    {[kind |-> "ok", body |-> r] : r \in REPLIES}
    \cup {[kind |-> "http_error", body |-> HTTP_500],
          [kind |-> "null_field", body |-> <<>>]}

\* the k-th exchange held at the start
PrefillText(k) == Rep("q", k)

PrefillReply(k) == Rep("r", k)

----------------------------------------------------------------------------
(* src/cloudflare_ai.py *)

Turn(role, content) == [role |-> role, content |-> content]

\* variant: the diagnostic is returned without the "Error: " prefix
RemoteResult_bare(remote) ==
    CASE remote.kind = "ok" -> [type |-> "text", data |-> remote.body]
      [] remote.kind = "no_field" -> [type |-> "text", data |-> NO_RESPONSE]
      [] remote.kind = "null_field" -> [type |-> "text", data |-> NONE]
      [] OTHER -> [type |-> "text", data |-> remote.body]

\* the reply of requests.post / raise_for_status / res.json / .get chain
RemoteResult(remote) ==
    CASE remote.kind = "ok" -> [type |-> "text", data |-> remote.body]
      [] remote.kind = "no_field" -> [type |-> "text", data |-> NO_RESPONSE]
      [] remote.kind = "null_field" -> [type |-> "text", data |-> NONE]
      [] OTHER -> [type |-> "text", data |-> TCat(ERROR_PREFIX, remote.body)]

\* the characters repr() writes as a backslash and a letter
ESCAPED == {"\n", "\t", "\r", "\\"}

\* len(repr(text)): the two quotes, two characters for an escaped one, and
\* for an apostrophe when the text also holds a double quote
ReprLen(text) ==
    LET chars == {text[k].c : k \in DOMAIN text}
        both == "'" \in chars /\ "\"" \in chars
        width(c) == IF c \in ESCAPED \/ (c = "'" /\ both) THEN 2 ELSE 1
        RECURSIVE Width(_)
        Width(t) ==
            IF Len(t) = 0 THEN 0
            ELSE IF Len(t) = 1 THEN t[1].n * width(t[1].c)
            ELSE Width(SubSeq(t, 1, Len(t) \div 2))
                   + Width(SubSeq(t, Len(t) \div 2 + 1, Len(t)))
    IN  2 + Width(text)

\* len(str(turn)) of {'role': '<role>', 'content': '<content>'}
TurnStrLen(turn) ==
    LET role_len == IF turn.role = "user" THEN 4 ELSE 9
    IN  9 + (role_len + 2) + 13 + ReprLen(turn.content) + 1

\* len(str(messages)): the brackets, the turns and ", " between them
RECURSIVE TurnsStrLen(_)
TurnsStrLen(messages) ==
    IF Len(messages) = 0 THEN 0
    ELSE IF Len(messages) = 1 THEN TurnStrLen(messages[1])
    ELSE TurnsStrLen(SubSeq(messages, 1, Len(messages) \div 2))
           + TurnsStrLen(SubSeq(messages, Len(messages) \div 2 + 1,
                                Len(messages)))

StrLen(messages) ==
    2 + TurnsStrLen(messages)
      + (IF Len(messages) = 0 THEN 0 ELSE 2 * (Len(messages) - 1))

\* cloudflare_ai.py 73 and 77: min(1024, context_limit - length // 4 - 100)
max_tokens(context_limit, length) ==
    LET room == context_limit - (length \div 4) - 100
    IN  IF room < 1024 THEN room ELSE 1024

ask_cloudflare_ai(prompt, history, model, remote) ==
    LET profile == IF model \in DOMAIN MODEL_CONFIGS THEN model ELSE "llama3"
        model_info == MODEL_CONFIGS[profile]
        payload_type == model_info.payload_type
        context_limit == model_info.context
        messages == history \o <<Turn("user", prompt)>>
        call(task, hist) == [fn |-> "ask_cloudflare_ai", model |-> model,
                             profile |-> profile, task |-> task,
                             prompt |-> prompt, history |-> hist]
        payload(task, hist, size) ==
            [fn |-> "ask_cloudflare_ai", model |-> model,
             profile |-> profile, task |-> task,
             prompt |-> prompt, history |-> hist, max_tokens |-> size]
    IN  CASE payload_type = "messages" ->
               [call |-> payload("chat_completion", history,
                                 max_tokens(context_limit, StrLen(messages))),
                messages |-> messages,
                response |-> RemoteResult(remote)]
          [] payload_type = "input_text" ->
               [call |-> payload("summarization", <<>>,
                                 max_tokens(context_limit, TLen(prompt))),
                messages |-> <<>>,
                response |-> RemoteResult(remote)]
          [] payload_type = "audio" ->
               [call |-> call("none", <<>>),
                messages |-> <<>>,
                response |-> [type |-> "text",
                              data |-> USE_TRANSCRIBE]]
          [] OTHER ->
               [call |-> call("none", <<>>),
                messages |-> <<>>,
                response |-> [type |-> "text",
                              data |-> USE_IMAGE_TO_TEXT]]

\* the table of select_model_by_task, keyed by the lower-cased task name
TASK_MODELS ==
    (Str(<<"c", "h", "a", "t">>) :> "llama3")
    @@ (Str(<<"c", "o", "d", "e">>) :> "qwancoder")
    @@ (Str(<<"s", "u", "m", "m", "a", "r", "y">>) :> "bart_summarizer")
    @@ (Str(<<"s", "p", "e", "e", "c", "h", "_", "t", "o", "_", "t", "e", "x",
          "t">>)
          :> "whisper_stt")
    @@ (Str(<<"i", "m", "a", "g", "e", "_", "t", "o", "_", "t", "e", "x", "t">>)
          :> "image_captioning")

\* variant: the task name is looked up as given, without lower()
select_model_by_task_exact(task) ==
    IF task \in DOMAIN TASK_MODELS THEN TASK_MODELS[task] ELSE "llama3"

\* cloudflare_ai.py 51-58
select_model_by_task(task) ==
    IF Lower(task) \in DOMAIN TASK_MODELS
    THEN TASK_MODELS[Lower(task)]
    ELSE "llama3"

\* cloudflare_ai.py 98-116: an absent, null or empty image_base64 is "not
\* image_data"
generate_image(prompt, remote) ==
    CASE remote.kind = "ok" /\ remote.body # <<>> ->
           [type |-> "image", data |-> TCat(DATA_URI, remote.body),
            message |-> TCat(TCat(IMAGE_MESSAGE_HEAD, prompt),
                             IMAGE_MESSAGE_TAIL)]
      [] remote.kind \in {"ok", "no_field", "null_field"} ->
           [type |-> "text", data |-> NO_IMAGE]
      [] OTHER ->
           [type |-> "text", data |-> TCat(IMAGE_ERROR_PREFIX, remote.body)]

\* res.json().get("result", {}).get(field, default) inside try/except
RemoteText(remote, default, error_prefix) ==
    CASE remote.kind = "ok" -> remote.body
      [] remote.kind = "no_field" -> default
      [] remote.kind = "null_field" -> NONE
      [] OTHER -> TCat(error_prefix, remote.body)

\* cloudflare_ai.py 138-154; a failing ffmpeg run is caught like a failing
\* request
transcribe_audio(remote) ==
    RemoteText(remote, UNABLE_TO_TRANSCRIBE, AUDIO_ERROR_PREFIX)

\* cloudflare_ai.py 157-168
image_to_text(remote) ==
    RemoteText(remote, UNABLE_TO_CAPTION, PICTURE_ERROR_PREFIX)

----------------------------------------------------------------------------
(* src/bot.py: session tables and the log *)

\* user_histories.get(u, [])
History(u) ==
    IF u \in DOMAIN user_histories THEN user_histories[u] ELSE <<>>

\* user_settings.get(user_id, {}).get('mode', 'chat')
Mode(u) ==
    IF u \in DOMAIN user_settings THEN user_settings[u] ELSE "chat"

\* d[u] = v on a dict
\* a store that is not keyed by the user: the value is written for everyone
Put_everyone(d, u, v) ==
    [x \in DOMAIN d \cup {u} |-> v]

Put(d, u, v) ==
    [x \in DOMAIN d \cup {u} |-> IF x = u THEN v ELSE d[x]]

\* variant: one entry too few, h[-(k - 1):]
LastN_short(h, k) ==
    IF Len(h) <= k - 1 THEN h ELSE SubSeq(h, Len(h) - k + 2, Len(h))

\* h[-k:] for k > 0
LastN(h, k) ==
    IF Len(h) <= k THEN h ELSE SubSeq(h, Len(h) - k + 1, Len(h))

\* variant: keeps the oldest entries, h[:MAX_HISTORY_LENGTH]
limit_history_front(h) ==
    IF Len(h) > MAX_HISTORY_LENGTH THEN SubSeq(h, 1, MAX_HISTORY_LENGTH) ELSE h

\* bot.py 329-330
limit_history(h) ==
    IF Len(h) > MAX_HISTORY_LENGTH THEN LastN(h, MAX_HISTORY_LENGTH) ELSE h

\* variant: the assistant turn is appended before the user turn
extend_history_swapped(h, message_text, data) ==
    h \o <<Turn("assistant", data), Turn("user", message_text)>>

\* variant: the new exchange is put in front of the history
extend_history_front(h, message_text, data) ==
    <<Turn("user", message_text), Turn("assistant", data)>> \o h

\* bot.py 352-355
extend_history(h, message_text, data) ==
    h \o <<Turn("user", message_text), Turn("assistant", data)>>

\* variant: is_user is left at the column default (db.py 17)
save_to_db_default(table, user_id, role, message, message_type, commit_ok) ==
    IF commit_ok
    THEN Append(table, [user_id |-> ToString(user_id), role |-> role,
                        message |-> message, type |-> message_type,
                        is_user |-> TRUE])
    ELSE table

\* the rows after save_to_db; a failed commit is swallowed (bot.py 228)
save_to_db(table, user_id, role, message, message_type, commit_ok) ==
    IF commit_ok
    THEN Append(table, [user_id |-> ToString(user_id), role |-> role,
                        message |-> message, type |-> message_type,
                        is_user |-> (role = "user")])
    ELSE table

TextMessage(body) == [kind |-> "text", body |-> body, caption |-> <<>>]

\* bot.py 43: the chunk of text that starts at offset i
Chunk(text, i) ==
    Slice(text, i, i + MAX_MESSAGE_LENGTH)

\* variant: the loop runs once more when the text ends at a chunk boundary
MoreChunks_inclusive(text, i) ==
    i + MAX_MESSAGE_LENGTH <= TLen(text)

\* bot.py 42: range(0, len(text), MAX_MESSAGE_LENGTH) has an offset after i
MoreChunks(text, i) ==
    i + MAX_MESSAGE_LENGTH < TLen(text)

----------------------------------------------------------------------------
(* Handlers.  The application is built without concurrent_updates        *)
(* (bot.py 370), so one update is handled to completion before the next  *)
(* one starts; `run` is the handler in flight, one action per stretch of *)
(* code between two awaits.  `outbox`, `calls` and `logged` are the      *)
(* messages delivered, the gateway calls made and the rows committed to  *)
(* the conversations table by that handler; `appended[u]` is every turn  *)
(* appended to u's history since it was last reset; `faults` counts the  *)
(* awaited calls and the commits that failed.                            *)

\* the environment lets the calls with a FALSE flag fail: `calls_ok` are
\* the calls of the step whose exception reaches the handler (the awaited
\* Telegram calls, the queries of /stats), `commits` its session.commit()
\* calls, whose exception save_to_db swallows
Failing(calls_ok, commits) ==
    LET failed(flags) == Cardinality({k \in DOMAIN flags : ~flags[k]})
    IN  /\ faults.call + faults.commit + failed(calls_ok) + failed(commits)
              <= MaxFaults
        /\ faults' = [call |-> faults.call + failed(calls_ok),
                      commit |-> faults.commit + failed(commits)]

NoFaults == [call |-> 0, commit |-> 0]

NoResponse == [type |-> "none", data |-> <<>>]

Idle ==
    [handler |-> "none", pc |-> "idle", user |-> 0, message_text |-> <<>>,
     mode |-> "none", remote |-> "none", response |-> NoResponse,
     text |-> <<>>, i |-> 0,
     outcome |-> "none", pre_hist |-> <<>>, pre_mode |-> "none",
     pre_appended |-> <<>>, pre_faults |-> NoFaults]

NewRun(handler, pc, u) ==
    [Idle EXCEPT !.handler = handler, !.pc = pc, !.user = u,
                 !.outcome = "running", !.pre_hist = History(u),
                 !.pre_mode = Mode(u), !.pre_appended = appended[u],
                 !.pre_faults = faults]

\* the dispatcher takes the next update
Begin ==
    /\ run.pc \in {"idle", "done"}
    /\ events < MaxEvents
    /\ events' = events + 1
    /\ outbox' = <<>>

Finished(outcome) ==
    [run EXCEPT !.pc = "done", !.outcome = outcome]

\* bot.py 352-356, after the last chunk was sent
TextDone(hists, rows, u, message_text, data, commit_ok) ==
    /\ user_histories' =
           Put(hists, u, extend_history(hists[u], message_text, data))
    /\ appended' = [appended EXCEPT ![u] =
                       @ \o <<Turn("user", message_text),
                              Turn("assistant", data)>>]
    /\ logged' = save_to_db(rows, u, "assistant", data, "text", commit_ok)

\* variant: the history is passed whatever the mode
dispatch_with_history(mode, message_text, history, remote) ==
    IF mode = "chat"
    THEN ask_cloudflare_ai(message_text, history, "llama3", remote)
    ELSE IF mode = "image" /\ StartsWith(Lower(message_text), TRIGGER)
    THEN ask_cloudflare_ai(message_text, history, "stable_diffusion", remote)
    ELSE ask_cloudflare_ai(message_text, history, "llama3", remote)

\* bot.py 336-341
dispatch(mode, message_text, history, remote) ==
    IF mode = "chat"
    THEN ask_cloudflare_ai(message_text, history, "llama3", remote)
    ELSE IF mode = "image" /\ StartsWith(Lower(message_text), TRIGGER)
    THEN ask_cloudflare_ai(message_text, <<>>, "stable_diffusion", remote)
    ELSE ask_cloudflare_ai(message_text, <<>>, "llama3", remote)

\* bot.py 315-344 and, for an empty reply, 351-356
handle_message(u, message_text, remote, commit_ok, commit_ok2) ==
    /\ Begin
    /\ Failing(<<>>, <<commit_ok, commit_ok2>>)
    /\ LET created == IF u \in DOMAIN user_histories
                      THEN user_histories
                      ELSE Put(user_histories, u, <<>>)
           rows == save_to_db(<<>>, u, "user", message_text, "text",
                              commit_ok)
           limited == Put(created, u, limit_history(created[u]))
           mode == Mode(u)
           r == dispatch(mode, message_text, limited[u], remote)
           started == [NewRun("handle_message", "split_long_message", u)
                         EXCEPT !.message_text = message_text,
                                !.mode = mode, !.remote = remote.kind,
                                !.response = r.response]
       IN  /\ calls' = <<r.call>>
           /\ UNCHANGED user_settings
           /\ IF r.response.type = "image"
              THEN \* bot.py 345-349; ask_cloudflare_ai never returns it
                   /\ run' = [started EXCEPT !.pc = "reply_photo"]
                   /\ user_histories' = limited
                   /\ logged' = rows
                   /\ UNCHANGED appended
              ELSE IF r.response.data = NONE
              THEN \* len(None) raises TypeError at bot.py 42
                   /\ run' = [started EXCEPT !.pc = "except"]
                   /\ user_histories' = limited
                   /\ logged' = rows
                   /\ UNCHANGED appended
              ELSE IF TLen(r.response.data) = 0
              THEN \* range(0, 0, ...) is empty: no await before line 352
                   /\ run' = [started EXCEPT !.pc = "done", !.outcome = "ok"]
                   /\ TextDone(limited, rows, u, message_text,
                               r.response.data, commit_ok2)
              ELSE /\ run' = started
                   /\ user_histories' = limited
                   /\ logged' = rows
                   /\ UNCHANGED appended

\* bot.py 42-44: reply_text(chunk) returns or raises; then 352-356
handle_message_send(send_ok, commit_ok) ==
    /\ run.handler = "handle_message"
    /\ run.pc = "split_long_message"
    /\ Failing(<<send_ok>>, <<commit_ok>>)
    /\ UNCHANGED <<user_settings, calls, events>>
    /\ LET text == run.response.data
           chunk == Chunk(text, run.i)
           next_i == run.i + MAX_MESSAGE_LENGTH
       IN  IF ~send_ok
           THEN /\ run' = [run EXCEPT !.pc = "except"]
                /\ UNCHANGED <<user_histories, appended, logged, outbox>>
           ELSE /\ outbox' = Append(outbox, TextMessage(chunk))
                /\ IF MoreChunks(text, run.i)
                   THEN /\ run' = [run EXCEPT !.i = next_i]
                        /\ UNCHANGED <<user_histories, appended, logged>>
                   ELSE /\ run' = Finished("ok")
                        /\ TextDone(user_histories, logged, run.user,
                                    run.message_text, text, commit_ok)

\* the except clause of a handler: one reply_text, which returns or raises
ExceptReply(handler, error_text, send_ok) ==
    /\ run.handler = handler
    /\ run.pc = "except"
    /\ Failing(<<send_ok>>, <<>>)
    /\ UNCHANGED <<user_histories, user_settings, logged, calls, appended,
                   events>>
    /\ IF send_ok
       THEN /\ outbox' = Append(outbox, TextMessage(error_text))
            /\ run' = Finished("caught")
       ELSE /\ UNCHANGED outbox
            /\ run' = Finished("raised")

\* bot.py 358-360
handle_message_except(send_ok) ==
    ExceptReply("handle_message", MESSAGE_ERROR, send_ok)

\* user_histories[user_id] = [] at bot.py 270
reset_history(hists, u) ==
    Put(hists, u, <<>>)

\* variant: /clear also drops the user's settings
clear_chat_forgets_mode(u) ==
    /\ Begin
    /\ run' = NewRun("clear_chat", "reply_text", u)
    /\ UNCHANGED faults
    /\ user_histories' = reset_history(user_histories, u)
    /\ appended' = [appended EXCEPT ![u] = <<>>]
    /\ calls' = <<>>
    /\ logged' = <<>>
    /\ user_settings' = [x \in DOMAIN user_settings \ {u} |-> user_settings[x]]

\* bot.py 263-271: the history is reset before the reply is awaited
clear_chat(u) ==
    /\ Begin
    /\ run' = NewRun("clear_chat", "reply_text", u)
    /\ UNCHANGED faults
    /\ user_histories' = reset_history(user_histories, u)
    /\ appended' = [appended EXCEPT ![u] = <<>>]
    /\ calls' = <<>>
    /\ logged' = <<>>
    /\ UNCHANGED user_settings

\* variant: save_to_db lets the exception of a failed commit through
clear_chat_reply_raises(send_ok, commit_ok) ==
    /\ run.handler = "clear_chat"
    /\ run.pc = "reply_text"
    /\ Failing(<<send_ok>>, <<commit_ok>>)
    /\ UNCHANGED <<user_histories, user_settings, calls, appended, events>>
    /\ IF send_ok
       THEN /\ outbox' = Append(outbox, TextMessage(CLEARED))
            /\ logged' = save_to_db(logged, run.user, "system", CLEARED_LOG,
                                    "text", commit_ok)
            /\ run' = IF commit_ok
                      THEN Finished("ok")
                      ELSE [run EXCEPT !.pc = "except"]
       ELSE /\ run' = [run EXCEPT !.pc = "except"]
            /\ UNCHANGED <<logged, outbox>>

\* bot.py 271-272
clear_chat_reply(send_ok, commit_ok) ==
    /\ run.handler = "clear_chat"
    /\ run.pc = "reply_text"
    /\ Failing(<<send_ok>>, <<commit_ok>>)
    /\ UNCHANGED <<user_histories, user_settings, calls, appended, events>>
    /\ IF send_ok
       THEN /\ outbox' = Append(outbox, TextMessage(CLEARED))
            /\ logged' = save_to_db(logged, run.user, "system", CLEARED_LOG,
                                    "text", commit_ok)
            /\ run' = Finished("ok")
       ELSE /\ run' = [run EXCEPT !.pc = "except"]
            /\ UNCHANGED <<logged, outbox>>

\* bot.py 273-275
clear_chat_except(send_ok) ==
    ExceptReply("clear_chat", CLEAR_ERROR, send_ok)

\* mode.capitalize() of the four mode names
Capitalize(mode) ==
    CASE mode = "chat" -> Str(<<"C", "h", "a", "t">>)
      [] mode = "image" -> Str(<<"I", "m", "a", "g", "e">>)
      [] mode = "voice" -> Str(<<"V", "o", "i", "c", "e">>)
      [] OTHER -> Str(<<"A", "n", "a", "l", "y", "s", "i", "s">>)

\* bot.py 97-104: up to the await of query.answer()
button_handler(u, data) ==
    /\ Begin
    /\ run' = [NewRun("button_handler", "query_answer", u)
                 EXCEPT !.mode = data[2]]
    /\ calls' = <<>>
    /\ logged' = <<>>
    /\ UNCHANGED <<user_histories, user_settings, appended, faults>>

\* variant: the press also starts the user's history afresh
button_handler_answer_resets(answer_ok) ==
    /\ run.handler = "button_handler"
    /\ run.pc = "query_answer"
    /\ Failing(<<answer_ok>>, <<>>)
    /\ UNCHANGED <<logged, outbox, calls, appended, events>>
    /\ IF answer_ok
       THEN /\ user_settings' = Put(user_settings, run.user, run.mode)
            /\ user_histories' = Put(user_histories, run.user, <<>>)
            /\ run' = [run EXCEPT !.pc = "reply_text"]
       ELSE /\ run' = [run EXCEPT !.pc = "except"]
            /\ UNCHANGED <<user_settings, user_histories>>

\* bot.py 104-112: query.answer() returns or raises; the mode is stored
button_handler_answer(answer_ok) ==
    /\ run.handler = "button_handler"
    /\ run.pc = "query_answer"
    /\ Failing(<<answer_ok>>, <<>>)
    /\ UNCHANGED <<user_histories, logged, outbox, calls, appended,
                   events>>
    /\ IF answer_ok
       THEN /\ user_settings' = Put(user_settings, run.user, run.mode)
            /\ run' = [run EXCEPT !.pc = "reply_text"]
       ELSE /\ run' = [run EXCEPT !.pc = "except"]
            /\ UNCHANGED user_settings

\* bot.py 112
button_handler_reply(send_ok) ==
    /\ run.handler = "button_handler"
    /\ run.pc = "reply_text"
    /\ Failing(<<send_ok>>, <<>>)
    /\ UNCHANGED <<user_histories, user_settings, logged, calls, appended,
                   events>>
    /\ IF send_ok
       THEN /\ outbox' = Append(outbox, TextMessage(
                             TCat(MODE_SWITCHED, Capitalize(run.mode))))
            /\ run' = Finished("ok")
       ELSE /\ run' = [run EXCEPT !.pc = "except"]
            /\ UNCHANGED outbox

\* bot.py 113-116
button_handler_except(send_ok) ==
    ExceptReply("button_handler", BUTTON_ERROR, send_ok)

----------------------------------------------------------------------------
(* src/bot.py: the command handlers *)

\* the handler returns; the dispatcher waits for the next update
Return ==
    /\ run.pc = "done"
    /\ run' = Idle
    /\ outbox' = <<>>
    /\ calls' = <<>>
    /\ logged' = <<>>
    /\ UNCHANGED <<user_histories, user_settings, appended, events, faults>>

\* a handler that has made no gateway call and written no row so far
BeginCommand(handler, pc, u) ==
    /\ run.pc = "idle"
    /\ Begin
    /\ run' = NewRun(handler, pc, u)
    /\ calls' = <<>>
    /\ logged' = <<>>
    /\ UNCHANGED <<user_histories, user_settings, appended, faults>>

\* bot.py 46-85: up to the await of reply_text(welcome_msg)
start(u) ==
    BeginCommand("start", "reply_text", u)

\* bot.py 85-92
start_reply(send_ok, commit_ok) ==
    /\ run.handler = "start"
    /\ run.pc = "reply_text"
    /\ Failing(<<send_ok>>, <<commit_ok>>)
    /\ UNCHANGED <<user_settings, calls, appended, events>>
    /\ IF send_ok
       THEN /\ outbox' = Append(outbox, TextMessage(WELCOME_MSG))
            /\ user_histories' =
                   IF run.user \in DOMAIN user_histories
                   THEN user_histories
                   ELSE Put(user_histories, run.user, <<>>)
            /\ logged' = save_to_db(logged, run.user, "assistant",
                                    WELCOME_MSG, "text", commit_ok)
            /\ run' = Finished("ok")
       ELSE /\ run' = [run EXCEPT !.pc = "except"]
            /\ UNCHANGED <<user_histories, logged, outbox>>

\* bot.py 93-95
start_except(send_ok) ==
    ExceptReply("start", COMMAND_ERROR, send_ok)

\* bot.py 231-257: up to the await of reply_text(help_text)
help_command(u) ==
    BeginCommand("help_command", "reply_text", u)

\* bot.py 257-258
help_command_reply(send_ok, commit_ok) ==
    /\ run.handler = "help_command"
    /\ run.pc = "reply_text"
    /\ Failing(<<send_ok>>, <<commit_ok>>)
    /\ UNCHANGED <<user_histories, user_settings, calls, appended, events>>
    /\ IF send_ok
       THEN /\ outbox' = Append(outbox, TextMessage(HELP_TEXT))
            /\ logged' = save_to_db(logged, run.user, "assistant", HELP_TEXT,
                                    "text", commit_ok)
            /\ run' = Finished("ok")
       ELSE /\ run' = [run EXCEPT !.pc = "except"]
            /\ UNCHANGED <<logged, outbox>>

\* bot.py 259-261
help_command_except(send_ok) ==
    ExceptReply("help_command", COMMAND_ERROR, send_ok)

\* bot.py 128-132
settings_text(mode) ==
    TCat(TCat(SETTINGS_HEAD, Capitalize(mode)), SETTINGS_TAIL)

\* bot.py 118-133: a user without settings gets {'mode': 'chat'}
settings(u) ==
    /\ Begin
    /\ run' = [NewRun("settings", "reply_text", u)
                 EXCEPT !.text = settings_text(Mode(u))]
    /\ user_settings' =
           IF u \in DOMAIN user_settings
           THEN user_settings
           ELSE Put(user_settings, u, "chat")
    /\ calls' = <<>>
    /\ logged' = <<>>
    /\ UNCHANGED <<user_histories, appended, faults>>

\* a handler whose last statement is the await of reply_text(run.text)
ReplyAndReturn(handler, send_ok) ==
    /\ run.handler = handler
    /\ run.pc = "reply_text"
    /\ Failing(<<send_ok>>, <<>>)
    /\ UNCHANGED <<user_histories, user_settings, logged, calls, appended,
                   events>>
    /\ IF send_ok
       THEN /\ outbox' = Append(outbox, TextMessage(run.text))
            /\ run' = Finished("ok")
       ELSE /\ run' = [run EXCEPT !.pc = "except"]
            /\ UNCHANGED outbox

\* bot.py 133
settings_reply(send_ok) ==
    ReplyAndReturn("settings", send_ok)

\* bot.py 134-136
settings_except(send_ok) ==
    ExceptReply("settings", SETTINGS_ERROR, send_ok)

DIGITS == <<"0", "1", "2", "3", "4", "5", "6", "7", "8", "9">>

\* str(n) for n >= 0
RECURSIVE Decimal(_)
Decimal(n) ==
    IF n < 10
    THEN Str(<<DIGITS[n + 1]>>)
    ELSE TCat(Decimal(n \div 10), Str(<<DIGITS[(n % 10) + 1]>>))

\* bot.py 150-155
stats_msg(counts) ==
    TCat(TCat(TCat(TCat(TCat(TCat(STATS_HEAD, Decimal(counts.total)),
                                  STATS_YOURS), Decimal(counts.user)),
                        STATS_BOT), Decimal(counts.bot)), NEWLINE)

\* bot.py 138-156: the three counts are read from the table, which the
\* model does not keep; a failing query raises into the handler
stats(u, counts, query_ok) ==
    /\ Begin
    /\ Failing(<<query_ok>>, <<>>)
    /\ run' = IF query_ok
              THEN [NewRun("stats", "reply_text", u)
                      EXCEPT !.text = stats_msg(counts)]
              ELSE NewRun("stats", "except", u)
    /\ calls' = <<>>
    /\ logged' = <<>>
    /\ UNCHANGED <<user_histories, user_settings, appended>>

\* bot.py 156
stats_reply(send_ok) ==
    ReplyAndReturn("stats", send_ok)

\* bot.py 157-159
stats_except(send_ok) ==
    ExceptReply("stats", STATS_ERROR, send_ok)

\* ' '.join(context.args)
RECURSIVE Join(_)
Join(args) ==
    IF Len(args) = 0 THEN <<>>
    ELSE IF Len(args) = 1 THEN args[1]
    ELSE TCat(TCat(args[1], Rep(" ", 1)), Join(Tail(args)))

\* the text an f-string puts in place of {value}
Format(value) ==
    IF value = NONE THEN NONE_TEXT ELSE value

\* the three commands that take a text: bot.py 161-213
TEXT_COMMANDS ==
    [translate |-> [usage |-> TRANSLATE_USAGE, prompt |-> TRANSLATE_PROMPT,
                    model |-> "llama3", error |-> TRANSLATE_ERROR],
     summarize |-> [usage |-> SUMMARIZE_USAGE, prompt |-> SUMMARIZE_PROMPT,
                    model |-> "llama3", error |-> SUMMARIZE_ERROR],
     code      |-> [usage |-> CODE_USAGE, prompt |-> <<>>,
                    model |-> "qwancoder", error |-> CODE_ERROR]]

\* bot.py 174, 192 and 209-210: the text handed to split_long_message;
\* None when len(None) is going to raise
ReplyText(handler, data) ==
    IF handler = "code"
    THEN TCat(TCat(CODE_FENCE_OPEN, Format(data)), CODE_FENCE_CLOSE)
    ELSE data

\* variant: a command without text goes to the gateway with an empty text
text_command_no_check(handler, u, args, remote) ==
    /\ Begin
    /\ UNCHANGED <<user_histories, user_settings, appended, faults>>
    /\ logged' = <<>>
    /\ LET text == Join(args)
           r == ask_cloudflare_ai(TCat(TEXT_COMMANDS[handler].prompt, text),
                                  <<>>, TEXT_COMMANDS[handler].model, remote)
           reply == ReplyText(handler, r.response.data)
           started == [NewRun(handler, "split_long_message", u)
                         EXCEPT !.message_text = text,
                                !.remote = remote.kind,
                                !.response = r.response,
                                !.text = reply]
       IN  /\ calls' = <<r.call>>
           /\ run' = IF reply = NONE
                     THEN [started EXCEPT !.pc = "except"]
                     ELSE IF TLen(reply) = 0
                     THEN [started EXCEPT !.pc = "done", !.outcome = "ok"]
                     ELSE started

\* the handler up to its first await: the usage reminder for a command
\* without text, else the gateway call and the first chunk
text_command(handler, u, args, remote) ==
    /\ Begin
    /\ UNCHANGED <<user_histories, user_settings, appended, faults>>
    /\ logged' = <<>>
    /\ LET text == Join(args)
           r == ask_cloudflare_ai(TCat(TEXT_COMMANDS[handler].prompt, text),
                                  <<>>, TEXT_COMMANDS[handler].model, remote)
           reply == ReplyText(handler, r.response.data)
           started == [NewRun(handler, "split_long_message", u)
                         EXCEPT !.message_text = text,
                                !.remote = remote.kind,
                                !.response = r.response,
                                !.text = reply]
       IN  IF text = <<>>
           THEN /\ calls' = <<>>
                /\ run' = [NewRun(handler, "reply_text", u)
                             EXCEPT !.text = TEXT_COMMANDS[handler].usage]
           ELSE /\ calls' = <<r.call>>
                /\ run' = IF reply = NONE
                          THEN [started EXCEPT !.pc = "except"]
                          ELSE IF TLen(reply) = 0
                          THEN [started EXCEPT !.pc = "done",
                                               !.outcome = "ok"]
                          ELSE started

\* bot.py 161-174
translate(u, args, remote) ==
    text_command("translate", u, args, remote)

\* bot.py 179-192
summarize(u, args, remote) ==
    text_command("summarize", u, args, remote)

\* bot.py 197-210
code(u, args, remote) ==
    text_command("code", u, args, remote)

\* bot.py 169-170, 187-188, 205-206: the usage reminder, then return
text_command_usage(send_ok) ==
    \E handler \in DOMAIN TEXT_COMMANDS : ReplyAndReturn(handler, send_ok)

\* bot.py 42-44 under translate, summarize and code
text_command_send(send_ok) ==
    /\ run.handler \in DOMAIN TEXT_COMMANDS
    /\ run.pc = "split_long_message"
    /\ Failing(<<send_ok>>, <<>>)
    /\ UNCHANGED <<user_histories, user_settings, logged, calls, appended,
                   events>>
    /\ IF ~send_ok
       THEN /\ run' = [run EXCEPT !.pc = "except"]
            /\ UNCHANGED outbox
       ELSE /\ outbox' = Append(outbox, TextMessage(Chunk(run.text, run.i)))
            /\ run' = IF MoreChunks(run.text, run.i)
                      THEN [run EXCEPT !.i = run.i + MAX_MESSAGE_LENGTH]
                      ELSE Finished("ok")

\* bot.py 175-177, 193-195, 211-213
text_command_except(send_ok) ==
    \E handler \in DOMAIN TEXT_COMMANDS :
        ExceptReply(handler, TEXT_COMMANDS[handler].error, send_ok)

\* the two handlers of media messages: bot.py 277-313
MEDIA ==
    [handle_voice |-> [notice |-> VOICE_PROCESSING,
                       head |-> TRANSCRIPTION_HEAD,
                       log |-> VOICE_LOG, type |-> "voice",
                       error |-> VOICE_ERROR],
     handle_photo |-> [notice |-> PHOTO_ANALYZING,
                       head |-> DESCRIPTION_HEAD,
                       log |-> PHOTO_LOG, type |-> "image",
                       error |-> PHOTO_ERROR]]

\* bot.py 277-283: up to the await of the notice
handle_voice(u) ==
    BeginCommand("handle_voice", "reply_text", u)

\* bot.py 296-302
handle_photo(u) ==
    BeginCommand("handle_photo", "reply_text", u)

\* an awaited call of a media handler that returns or raises
MediaAwait(pc, next_pc, ok) ==
    /\ run.handler \in DOMAIN MEDIA
    /\ run.pc = pc
    /\ Failing(<<ok>>, <<>>)
    /\ run' = [run EXCEPT !.pc = IF ok THEN next_pc ELSE "except"]

\* bot.py 283 and 302
media_notice(send_ok) ==
    /\ MediaAwait("reply_text", "get_file", send_ok)
    /\ outbox' = IF send_ok
                 THEN Append(outbox, TextMessage(MEDIA[run.handler].notice))
                 ELSE outbox
    /\ UNCHANGED <<user_histories, user_settings, logged, calls, appended,
                   events>>

\* bot.py 284 and 303
media_get_file(ok) ==
    /\ MediaAwait("get_file", "download_as_bytearray", ok)
    /\ UNCHANGED <<user_histories, user_settings, logged, outbox, calls,
                   appended, events>>

\* variant: every media message is handed to the transcription model
media_call_transcribes(handler, remote) ==
    [call |-> [fn |-> "transcribe_audio", model |-> "whisper_stt",
               profile |-> "whisper_stt", task |-> "speech_to_text",
               prompt |-> <<>>, history |-> <<>>],
     response |-> [type |-> "text", data |-> transcribe_audio(remote)]]

\* bot.py 287 and 306: the gateway call of a media handler
media_call(handler, remote) ==
    IF handler = "handle_voice"
    THEN [call |-> [fn |-> "transcribe_audio", model |-> "whisper_stt",
                    profile |-> "whisper_stt", task |-> "speech_to_text",
                    prompt |-> <<>>, history |-> <<>>],
          response |-> [type |-> "text", data |-> transcribe_audio(remote)]]
    ELSE [call |-> [fn |-> "image_to_text", model |-> "image_captioning",
                    profile |-> "image_captioning",
                    task |-> "image_to_text",
                    prompt |-> <<>>, history |-> <<>>],
          response |-> [type |-> "text", data |-> image_to_text(remote)]]

\* bot.py 285-287 and 304-306: the download, then the gateway call
media_download(ok, remote) ==
    /\ run.handler \in DOMAIN MEDIA
    /\ run.pc = "download_as_bytearray"
    /\ Failing(<<ok>>, <<>>)
    /\ UNCHANGED <<user_histories, user_settings, logged, outbox, appended,
                   events>>
    /\ IF ok
       THEN LET r == media_call(run.handler, remote)
            IN  /\ calls' = <<r.call>>
                /\ run' = [run EXCEPT !.pc = "reply_result",
                                      !.remote = remote.kind,
                                      !.response = r.response]
       ELSE /\ run' = [run EXCEPT !.pc = "except"]
            /\ UNCHANGED calls

\* bot.py 288-291 and 307-310
media_reply(send_ok, commit_ok, commit_ok2) ==
    /\ run.handler \in DOMAIN MEDIA
    /\ run.pc = "reply_result"
    /\ Failing(<<send_ok>>, <<commit_ok, commit_ok2>>)
    /\ UNCHANGED <<user_histories, user_settings, calls, appended, events>>
    /\ IF send_ok
       THEN /\ outbox' = Append(outbox, TextMessage(
                             TCat(MEDIA[run.handler].head,
                                  Format(run.response.data))))
            /\ logged' = save_to_db(
                             save_to_db(logged, run.user, "user",
                                        MEDIA[run.handler].log,
                                        MEDIA[run.handler].type, commit_ok),
                             run.user, "assistant", run.response.data,
                             "text", commit_ok2)
            /\ run' = Finished("ok")
       ELSE /\ run' = [run EXCEPT !.pc = "except"]
            /\ UNCHANGED <<logged, outbox>>

\* bot.py 292-294 and 311-313
media_except(send_ok) ==
    \E handler \in DOMAIN MEDIA :
        ExceptReply(handler, MEDIA[handler].error, send_ok)

----------------------------------------------------------------------------
(* The state the model starts in.  The process has run for a while: the   *)
(* first user holds the history that a number of answered text messages   *)
(* leaves behind and may have pressed the image mode button; the table    *)
(* rows written so far are not kept.                                      *)

\* the history after the exchanges lo .. hi were handled on history h
RECURSIVE Exchanges(_, _, _)
Exchanges(h, lo, hi) ==
    IF lo > hi THEN h
    ELSE IF lo = hi
    THEN extend_history(limit_history(h), PrefillText(lo), PrefillReply(lo))
    ELSE LET first == Exchanges(h, lo, (lo + hi) \div 2)
         IN  IF Len(first) >= 0
             THEN Exchanges(first, (lo + hi) \div 2 + 1, hi)
             ELSE first

Prefilled(k) ==
    Exchanges(<<>>, 1, k)

\* every turn of the exchanges 1 .. k
PrefillTurns(k) ==
    [j \in 1..(2 * k) |->
        IF j % 2 = 1
        THEN Turn("user", PrefillText((j + 1) \div 2))
        ELSE Turn("assistant", PrefillReply(j \div 2))]

FirstUser == CHOOSE u \in Users : \A v \in Users : u <= v

Init ==
    \E held \in PrefillCounts, m \in {"unset", "image"} :
        /\ user_histories =
               IF held = 0 THEN <<>> ELSE Put(<<>>, FirstUser, Prefilled(held))
        /\ appended =
               [u \in Users |->
                   IF u = FirstUser THEN PrefillTurns(held) ELSE <<>>]
        /\ user_settings =
               IF m = "unset" THEN <<>> ELSE Put(<<>>, FirstUser, m)
        /\ logged = <<>>
        /\ run = Idle
        /\ outbox = <<>>
        /\ calls = <<>>
        /\ events = 0
        /\ faults = NoFaults

Next ==
    \/ \E u \in Users, t \in TEXTS, r \in REMOTE, ok \in BOOLEAN :
          \E ok2 \in IF r.kind = "ok" /\ r.body = <<>>
                     THEN BOOLEAN ELSE {TRUE} :
              handle_message(u, t, r, ok, ok2)
    \/ \E s \in BOOLEAN :
          \E ok \in IF s /\ run.i + MAX_MESSAGE_LENGTH
                                >= TLen(run.response.data)
                    THEN BOOLEAN ELSE {TRUE} :
              handle_message_send(s, ok)
    \/ \E s \in BOOLEAN : handle_message_except(s)
    \/ \E u \in Users : clear_chat(u)
    \/ \E s \in BOOLEAN : \E ok \in IF s THEN BOOLEAN ELSE {TRUE} :
          clear_chat_reply(s, ok)
    \/ \E s \in BOOLEAN : clear_chat_except(s)
    \/ \E u \in Users, d \in CALLBACK_DATA : button_handler(u, d)
    \/ \E a \in BOOLEAN : button_handler_answer(a)
    \/ \E s \in BOOLEAN : button_handler_reply(s)
    \/ \E s \in BOOLEAN : button_handler_except(s)

Spec == Init /\ [][Next]_vars

----------------------------------------------------------------------------
(* Every handler of the bot.  The first user has had one exchange and has *)
(* pressed the image mode button; the second user is new.  A handler that *)
(* is done returns before the next update is taken.                       *)

\* context.args of a command: no text, or the words "Hi" and "there"
ARGS == {<<>>, <<Str(<<"H", "i">>), Str(<<"t", "h", "e", "r", "e">>)>>}

\* the row counts the queries of /stats return
COUNTS == {[total |-> 0, user |-> 0, bot |-> 0],
           [total |-> 12, user |-> 7, bot |-> 5]}

\* what the remote call of transcribe_audio and image_to_text does
MEDIA_REMOTE ==
    {[kind |-> "ok", body |-> HI_THERE],
     [kind |-> "no_field", body |-> <<>>],
     [kind |-> "null_field", body |-> <<>>],
     [kind |-> "http_error", body |-> HTTP_500]}

InitAll ==
    /\ user_histories = Put(<<>>, FirstUser, Prefilled(1))
    /\ appended =
           [u \in Users |-> IF u = FirstUser THEN PrefillTurns(1) ELSE <<>>]
    /\ user_settings = Put(<<>>, FirstUser, "image")
    /\ logged = <<>>
    /\ run = Idle
    /\ outbox = <<>>
    /\ calls = <<>>
    /\ events = 0
    /\ faults = NoFaults

Commands ==
    \/ \E u \in Users : start(u)
    \/ \E s \in BOOLEAN : \E ok \in IF s THEN BOOLEAN ELSE {TRUE} :
          start_reply(s, ok)
    \/ \E s \in BOOLEAN : start_except(s)
    \/ \E u \in Users : help_command(u)
    \/ \E s \in BOOLEAN : \E ok \in IF s THEN BOOLEAN ELSE {TRUE} :
          help_command_reply(s, ok)
    \/ \E s \in BOOLEAN : help_command_except(s)
    \/ \E u \in Users : settings(u)
    \/ \E s \in BOOLEAN : settings_reply(s)
    \/ \E s \in BOOLEAN : settings_except(s)
    \/ \E u \in Users, c \in COUNTS, q \in BOOLEAN :
          stats(u, IF q THEN c ELSE CHOOSE z \in COUNTS : z.total = 0, q)
    \/ \E s \in BOOLEAN : stats_reply(s)
    \/ \E s \in BOOLEAN : stats_except(s)
    \/ \E u \in Users, a \in ARGS :
          \E r \in IF a = <<>> THEN {CHOOSE z \in REMOTE : z.kind = "http_error"}
                    ELSE REMOTE :
              translate(u, a, r)
    \/ \E u \in Users, a \in ARGS :
          \E r \in IF a = <<>> THEN {CHOOSE z \in REMOTE : z.kind = "http_error"}
                    ELSE REMOTE :
              summarize(u, a, r)
    \/ \E u \in Users, a \in ARGS :
          \E r \in IF a = <<>> THEN {CHOOSE z \in REMOTE : z.kind = "http_error"}
                    ELSE REMOTE :
              code(u, a, r)
    \/ \E s \in BOOLEAN : text_command_usage(s)
    \/ \E s \in BOOLEAN : text_command_send(s)
    \/ \E s \in BOOLEAN : text_command_except(s)
    \/ \E u \in Users : handle_voice(u)
    \/ \E u \in Users : handle_photo(u)
    \/ \E s \in BOOLEAN : media_notice(s)
    \/ \E ok \in BOOLEAN : media_get_file(ok)
    \/ \E ok \in BOOLEAN :
          \E r \in IF ok THEN MEDIA_REMOTE
                    ELSE {CHOOSE z \in MEDIA_REMOTE : z.kind = "http_error"} :
              media_download(ok, r)
    \/ \E s \in BOOLEAN :
          \E ok \in IF s THEN BOOLEAN ELSE {TRUE} :
              \E ok2 \in IF s THEN BOOLEAN ELSE {TRUE} :
                  media_reply(s, ok, ok2)
    \/ \E s \in BOOLEAN : media_except(s)

NextAll ==
    \/ Return
    \/ run.pc = "idle"
          /\ \E u \in Users, t \in TEXTS, r \in REMOTE, ok \in BOOLEAN :
                \E ok2 \in IF r.kind = "ok" /\ r.body = <<>>
                           THEN BOOLEAN ELSE {TRUE} :
                    handle_message(u, t, r, ok, ok2)
    \/ \E s \in BOOLEAN :
          \E ok \in IF s /\ run.i + MAX_MESSAGE_LENGTH
                                >= TLen(run.response.data)
                    THEN BOOLEAN ELSE {TRUE} :
              handle_message_send(s, ok)
    \/ \E s \in BOOLEAN : handle_message_except(s)
    \/ run.pc = "idle" /\ \E u \in Users : clear_chat(u)
    \/ \E s \in BOOLEAN : \E ok \in IF s THEN BOOLEAN ELSE {TRUE} :
          clear_chat_reply(s, ok)
    \/ \E s \in BOOLEAN : clear_chat_except(s)
    \/ run.pc = "idle"
          /\ \E u \in Users, d \in CALLBACK_DATA : button_handler(u, d)
    \/ \E a \in BOOLEAN : button_handler_answer(a)
    \/ \E s \in BOOLEAN : button_handler_reply(s)
    \/ \E s \in BOOLEAN : button_handler_except(s)
    \/ Commands

SpecAll == InitAll /\ [][NextAll]_vars

----------------------------------------------------------------------------
(* split_long_message on its own: texts of every length around a multiple *)
(* of MAX_MESSAGE_LENGTH, made of one, two or three runs of characters.   *)

\* the longest text is MaxChunks full chunks and one character
MaxChunks == 3

SPLIT_LENGTHS ==
    {n \in {MAX_MESSAGE_LENGTH * k + d : k \in 0..MaxChunks, d \in {-1, 0, 1}} :
        n >= 0}

SPLIT_TEXTS ==
    {Rep("a", n) : n \in SPLIT_LENGTHS}
    \cup {TCat(Rep("a", 1), Rep("b", n - 1)) : n \in SPLIT_LENGTHS \ {0}}
    \cup {TCat(TCat(Rep("a", n \div 2), Rep("b", 1)),
                Rep("c", n - (n \div 2) - 1)) : n \in SPLIT_LENGTHS \ {0}}

InitSplit ==
    \E text \in SPLIT_TEXTS :
        /\ run = [Idle EXCEPT !.handler = "split_long_message",
                              !.pc = "range", !.text = text,
                              !.outcome = "running"]
        /\ user_histories = <<>>
        /\ user_settings = <<>>
        /\ appended = [u \in Users |-> <<>>]
        /\ logged = <<>>
        /\ outbox = <<>>
        /\ calls = <<>>
        /\ events = 0
        /\ faults = NoFaults

\* bot.py 42: the loop is entered unless the text is empty
split_long_message ==
    /\ run.handler = "split_long_message"
    /\ run.pc = "range"
    /\ run' = IF TLen(run.text) = 0
              THEN Finished("ok")
              ELSE [run EXCEPT !.pc = "split_long_message"]
    /\ UNCHANGED <<user_histories, user_settings, logged, outbox, calls,
                   appended, events, faults>>

\* bot.py 43-44: one chunk is sent; a send that raises ends the loop
split_long_message_send(send_ok) ==
    /\ run.handler = "split_long_message"
    /\ run.pc = "split_long_message"
    /\ Failing(<<send_ok>>, <<>>)
    /\ UNCHANGED <<user_histories, user_settings, logged, calls, appended,
                   events>>
    /\ IF ~send_ok
       THEN /\ run' = Finished("raised")
            /\ UNCHANGED outbox
       ELSE /\ outbox' = Append(outbox, TextMessage(Chunk(run.text, run.i)))
            /\ run' = IF MoreChunks(run.text, run.i)
                      THEN [run EXCEPT !.i = run.i + MAX_MESSAGE_LENGTH]
                      ELSE Finished("ok")

NextSplit ==
    \/ split_long_message
    \/ \E s \in BOOLEAN : split_long_message_send(s)

SpecSplit == InitSplit /\ [][NextSplit]_vars

----------------------------------------------------------------------------
(* The gateway client on its own: every function of cloudflare_ai.py is   *)
(* called once, with every name and every outcome of the remote call.     *)

\* task names given to select_model_by_task, the empty name included
TASK_NAMES ==
    {<<>>,
     Str(<<"c", "h", "a", "t">>),
     Str(<<"C", "H", "A", "T">>),
     Str(<<"C", "o", "d", "e">>),
     Str(<<"s", "u", "m", "m", "a", "r", "y">>),
     Str(<<"S", "u", "m", "m", "a", "r", "y">>),
     Str(<<"s", "p", "e", "e", "c", "h", "_", "t", "o", "_", "t", "e", "x",
          "t">>),
     Str(<<"I", "M", "A", "G", "E", "_", "T", "O", "_", "T", "E", "X", "T">>),
     Str(<<"i", "m", "a", "g", "e">>),
     Str(<<"t", "r", "a", "n", "s", "l", "a", "t", "e">>),
     Str(<<"c", "h", "a", "t", " ">>)}

\* model names given to ask_cloudflare_ai
MODEL_NAMES ==
    DOMAIN MODEL_CONFIGS \cup {"stable_diffusion", "LLAMA3", "gpt-4", ""}

\* what the remote call does: a reply, a reply without the field or with
\* a null field, a non-2xx status, no connection, a body that is not JSON
GATEWAY_REMOTE ==
    REMOTE
    \cup {[kind |-> "no_field", body |-> <<>>],
          [kind |-> "transport_error",
           body |-> Str(<<"C", "o", "n", "n", "e", "c", "t", "i", "o", "n", " ", "r", "e",
          "f", "u", "s", "e", "d">>)],
          [kind |-> "bad_json",
           body |-> Str(<<"E", "x", "p", "e", "c", "t", "i", "n", "g", " ", "v", "a", "l",
          "u", "e">>)]}

GATEWAY_HISTORIES == {<<>>, Prefilled(1)}

InitGateway ==
    /\ run = Idle
    /\ user_histories = <<>>
    /\ user_settings = <<>>
    /\ appended = [u \in Users |-> <<>>]
    /\ logged = <<>>
    /\ outbox = <<>>
    /\ calls = <<>>
    /\ events = 0
    /\ faults = NoFaults

\* a function of the client is called and returns
GatewayCall(fn, call, response) ==
    /\ Begin
    /\ run' = [Idle EXCEPT !.handler = fn, !.pc = "done",
                           !.response = response, !.outcome = "ok"]
    /\ calls' = <<call>>
    /\ UNCHANGED <<user_histories, user_settings, logged, appended, faults>>

\* cloudflare_ai.py 51-58
call_select_model_by_task(task) ==
    GatewayCall("select_model_by_task",
                [fn |-> "select_model_by_task", task |-> task,
                 model |-> select_model_by_task(task)],
                NoResponse)

\* cloudflare_ai.py 61-95
call_ask_cloudflare_ai(prompt, history, model, remote) ==
    LET r == ask_cloudflare_ai(prompt, history, model, remote)
    IN  GatewayCall("ask_cloudflare_ai", r.call, r.response)

\* cloudflare_ai.py 98-116
call_generate_image(prompt, remote) ==
    GatewayCall("generate_image",
                [fn |-> "generate_image", prompt |-> prompt,
                 remote |-> remote.kind],
                generate_image(prompt, remote))

\* cloudflare_ai.py 138-154
call_transcribe_audio(remote) ==
    GatewayCall("transcribe_audio",
                [fn |-> "transcribe_audio", remote |-> remote.kind],
                [type |-> "text", data |-> transcribe_audio(remote)])

\* cloudflare_ai.py 157-168
call_image_to_text(remote) ==
    GatewayCall("image_to_text",
                [fn |-> "image_to_text", remote |-> remote.kind],
                [type |-> "text", data |-> image_to_text(remote)])

NextGateway ==
    \/ Return
    \/ run.pc # "done" /\ \E t \in TASK_NAMES : call_select_model_by_task(t)
    \/ run.pc # "done"
          /\ \E t \in TEXTS, h \in GATEWAY_HISTORIES, m \in MODEL_NAMES,
                r \in GATEWAY_REMOTE :
                call_ask_cloudflare_ai(t, h, m, r)
    \/ run.pc # "done"
          /\ \E t \in TEXTS, r \in GATEWAY_REMOTE : call_generate_image(t, r)
    \/ run.pc # "done" /\ \E r \in GATEWAY_REMOTE : call_transcribe_audio(r)
    \/ run.pc # "done" /\ \E r \in GATEWAY_REMOTE : call_image_to_text(r)

SpecGateway == InitGateway /\ [][NextGateway]_vars

----------------------------------------------------------------------------
(* The size cap of a chat request.  The first user already holds some     *)
(* exchanges of a text as long as one Telegram message, each answered by  *)
(* a reply that took two messages to send.                                *)

\* exchanges of full length held at the start: 0 .. MaxFull
MaxFull == 4

\* a text message of 4096 characters
FULL_TEXT == Rep("a", MAX_MESSAGE_LENGTH)

\* bot.py 352-355, k times over
FullTurns(k) ==
    [j \in 1..(2 * k) |->
        IF j % 2 = 1
        THEN Turn("user", FULL_TEXT)
        ELSE Turn("assistant", LONG_REPLY)]

InitBudget ==
    \E held \in 0..MaxFull :
        /\ user_histories =
               IF held = 0 THEN <<>> ELSE Put(<<>>, FirstUser, FullTurns(held))
        /\ appended =
               [u \in Users |-> IF u = FirstUser THEN FullTurns(held) ELSE <<>>]
        /\ user_settings = <<>>
        /\ logged = <<>>
        /\ run = Idle
        /\ outbox = <<>>
        /\ calls = <<>>
        /\ events = 0
        /\ faults = NoFaults

NextBudget ==
    \/ Next
    \/ \E u \in Users, r \in REMOTE, ok \in BOOLEAN :
          \E ok2 \in IF r.kind = "ok" /\ r.body = <<>>
                     THEN BOOLEAN ELSE {TRUE} :
              handle_message(u, FULL_TEXT, r, ok, ok2)

SpecBudget == InitBudget /\ [][NextBudget]_vars

----------------------------------------------------------------------------
(* Properties *)

InMessage == run.handler = "handle_message"

MessageDone == InMessage /\ run.pc = "done"

\* h[-50:]
Last50(h) ==
    IF Len(h) > 50 THEN [k \in 1..50 |-> h[Len(h) - 50 + k]] ELSE h

IsSuffix(s, t) ==
    /\ Len(s) <= Len(t)
    /\ \A k \in 1..Len(s) : s[k] = t[Len(t) - Len(s) + k]

HasTrigger(text) ==
    StartsWith(Lower(text), Str(<<"g", "e", "n", "e", "r", "a", "t", "e">>))

ErrorReplies(box) ==
    Cardinality({k \in DOMAIN box : box[k] = TextMessage(MESSAGE_ERROR)})

Diagnostic500 ==
    Str(<<"E", "r", "r", "o", "r", ":", " ", "5", "0", "0", " ", "S", "e",
          "r", "v", "e", "r", " ", "E", "r", "r", "o", "r">>)

ImageGeneration(call) ==
    call.fn = "generate_image" \/ call.task = "image_generation"

ChatCompletion(call) ==
    call.fn = "ask_cloudflare_ai" /\ call.task = "chat_completion"

\* C1: no user's history is ever longer than MAX_HISTORY_LENGTH (50)
\* entries, the state right after an exchange was appended included.
C1_HistoryBounded ==
    \A u \in Users : Len(History(u)) <= 50

\* C2 as stated: a text message whose inference call returned a non-2xx
\* status ends with exactly the fixed error reply in the outbox and with
\* the user's history as it was before the message.
C2_FixedErrorNoMutation ==
    (MessageDone /\ run.remote = "http_error")
        => /\ outbox = <<TextMessage(MESSAGE_ERROR)>>
           /\ History(run.user) = run.pre_hist

\* C2 amended: on a non-2xx status the gateway client returns the text
\* result "Error: <diagnostic>"; the handler sends that text as the
\* ordinary reply, never the fixed error reply while every send succeeds,
\* and once it is sent the history is the previous history cut to its
\* last 50 entries, followed by the user turn and the diagnostic as an
\* assistant turn.
C2_DiagnosticIsAppended ==
    (InMessage /\ run.remote = "http_error")
        => /\ run.response = [type |-> "text", data |-> Diagnostic500]
           /\ (run.pc = "done" /\ faults = run.pre_faults)
                 => /\ run.outcome = "ok"
                    /\ outbox = <<TextMessage(Diagnostic500)>>
                    /\ History(run.user) =
                         Last50(run.pre_hist)
                           \o <<[role |-> "user",
                                 content |-> run.message_text],
                                [role |-> "assistant",
                                 content |-> Diagnostic500]>>

C2_Witness ==
    /\ MessageDone
    /\ run.remote = "http_error"
    /\ run.outcome = "ok"
    /\ Len(History(run.user)) = Len(run.pre_hist) + 2
    /\ outbox # <<>>

\* C3: whatever the stored mode, a text message that starts with the
\* trigger phrase is dispatched to image generation, not chat completion.
C3_TriggerForcesImage ==
    (InMessage /\ HasTrigger(run.message_text))
        => /\ calls # <<>>
           /\ ImageGeneration(calls[1])
           /\ ~ChatCompletion(calls[1])

\* C4 as stated: without the trigger phrase, mode chat calls chat
\* completion with the stored history, mode image calls image generation,
\* every other mode calls chat completion with an empty history.
C4_ModeSelectsTask ==
    (InMessage /\ ~HasTrigger(run.message_text))
        => /\ calls # <<>>
           /\ run.mode = "chat"
                 => /\ ChatCompletion(calls[1])
                    /\ calls[1].history = Last50(run.pre_hist)
           /\ run.mode = "image" => ImageGeneration(calls[1])
           /\ run.mode \notin {"chat", "image"}
                 => /\ ChatCompletion(calls[1])
                    /\ calls[1].history = <<>>

\* C4 amended: without the trigger phrase, mode chat calls chat completion
\* with the stored history as it stands at the call (cut to its last 50
\* entries); every other mode, image included, calls chat completion on
\* the default profile with an empty history.
C4_OnlyChatModeUsesHistory ==
    (InMessage /\ ~HasTrigger(run.message_text))
        => /\ Len(calls) = 1
           /\ ChatCompletion(calls[1])
           /\ calls[1].profile = "llama3"
           /\ calls[1].prompt = run.message_text
           /\ run.mode = run.pre_mode
           /\ run.mode = "chat" => calls[1].history = Last50(run.pre_hist)
           /\ run.mode # "chat" => calls[1].history = <<>>

C4_Witness ==
    /\ InMessage
    /\ ~HasTrigger(run.message_text)
    /\ run.mode = "image"
    /\ run.pre_hist # <<>>
    /\ calls # <<>>
    /\ calls[1].history = <<>>

\* C5: a user's history is always a suffix of the turns appended since it
\* was last reset: the most recent turns, in their original order.
C5_HistoryIsSuffix ==
    \A u \in Users : IsSuffix(History(u), appended[u])

C5_Witness ==
    \E u \in Users :
        /\ Len(History(u)) = 52
        /\ Len(appended[u]) > Len(History(u))
        /\ run.pc = "done"
        /\ run.outcome = "ok"

\* C6: /clear empties the user's history and leaves the user's mode as it
\* was; the text message handled next for that user is dispatched in the
\* mode that was in effect before the clear.
C6_ClearKeepsMode ==
    /\ [](run.handler = "clear_chat"
            => /\ History(run.user) = <<>>
               /\ Mode(run.user) = run.pre_mode)
    /\ [][(/\ run.handler = "clear_chat"
           /\ run'.handler = "handle_message"
           /\ run'.user = run.user) => run'.mode = run.pre_mode]_vars

C6_Witness ==
    /\ run.handler = "clear_chat"
    /\ run.pc = "done"
    /\ run.outcome = "ok"
    /\ run.pre_mode = "image"
    /\ run.pre_hist # <<>>
    /\ History(run.user) = <<>>
    /\ events < MaxEvents

\* C7: when exactly one exchange was appended since the history was empty,
\* the next chat-mode message passes exactly that exchange to the gateway:
\* the user turn, then the assistant turn.
C7_SecondCallSeesFirstExchange ==
    (InMessage /\ run.mode = "chat" /\ Len(run.pre_appended) = 2)
        => /\ Len(calls) = 1
           /\ calls[1].history = run.pre_appended
           /\ calls[1].history[1].role = "user"
           /\ calls[1].history[2].role = "assistant"

C7_Witness ==
    /\ InMessage
    /\ run.mode = "chat"
    /\ Len(run.pre_appended) = 2
    /\ calls # <<>>
    /\ calls[1].history
         = <<[role |-> "user", content |-> HELLO],
             [role |-> "assistant", content |-> HI_THERE]>>

\* C8: in chat mode with an empty history, "Hello" answered with the text
\* "Hi there" and no failed send or commit gives one outbound message
\* "Hi there", the history [user "Hello", assistant "Hi there"] and two
\* log rows: the user's message, then the assistant's.
C8_HelloScenario ==
    (/\ MessageDone
     /\ run.pre_mode = "chat"
     /\ run.pre_hist = <<>>
     /\ run.message_text = HELLO
     /\ run.remote = "ok"
     /\ run.response.data = HI_THERE
     /\ faults = run.pre_faults)
        => /\ outbox = <<[kind |-> "text", body |-> HI_THERE,
                          caption |-> <<>>]>>
           /\ History(run.user)
                = <<[role |-> "user", content |-> HELLO],
                    [role |-> "assistant", content |-> HI_THERE]>>
           /\ logged
                = <<[user_id |-> ToString(run.user), role |-> "user",
                     message |-> HELLO, type |-> "text", is_user |-> TRUE],
                    [user_id |-> ToString(run.user), role |-> "assistant",
                     message |-> HI_THERE, type |-> "text",
                     is_user |-> FALSE]>>

C8_Witness ==
    /\ MessageDone
    /\ run.pre_mode = "chat"
    /\ run.pre_hist = <<>>
    /\ run.message_text = HELLO
    /\ run.response.data = HI_THERE
    /\ faults = run.pre_faults
    /\ Len(logged) = 2

\* C10: a text message whose handling failed and was caught ends with
\* exactly one fixed error reply and with the user's history and mode as
\* they were before the message.
C10_FailureLeavesSession ==
    (MessageDone /\ run.outcome = "caught")
        => /\ ErrorReplies(outbox) = 1
           /\ History(run.user) = run.pre_hist
           /\ Mode(run.user) = run.pre_mode

HandlerDone == run.pc = "done"

\* no awaited call, query or commit failed while this handler ran
NoFaultInHandler == faults = run.pre_faults

\* C11: a handler that ran without a failed call or commit has written
\* exactly one log row per user-visible message: one for the inbound
\* message or command and one for each outbound message.
C11_OneRowPerMessage ==
    (HandlerDone /\ NoFaultInHandler) => Len(logged) = 1 + Len(outbox)

\* the consecutive pieces of at most 4096 characters of a text
Pieces(text) ==
    [k \in 1..((TLen(text) + 4095) \div 4096) |->
        Slice(text, 4096 * (k - 1), 4096 * k)]

Bodies(box) ==
    [k \in DOMAIN box |-> box[k].body]

\* what a handler says when none of its awaited calls and queries fails
ExpectedBodies ==
    LET data == run.response.data
    IN  CASE run.handler = "handle_message" ->
               IF data = NONE THEN <<MESSAGE_ERROR>> ELSE Pieces(data)
          [] run.handler = "clear_chat" -> <<CLEARED>>
          [] run.handler = "button_handler" ->
               <<TCat(MODE_SWITCHED, Capitalize(run.mode))>>
          [] run.handler = "start" -> <<WELCOME_MSG>>
          [] run.handler = "help_command" -> <<HELP_TEXT>>
          [] run.handler = "settings" ->
               <<TCat(TCat(SETTINGS_HEAD, Capitalize(run.pre_mode)),
                      SETTINGS_TAIL)>>
          [] run.handler = "stats" -> <<run.text>>
          [] run.handler \in {"translate", "summarize"} ->
               IF run.message_text = <<>>
               THEN <<TEXT_COMMANDS[run.handler].usage>>
               ELSE IF data = NONE
               THEN <<TEXT_COMMANDS[run.handler].error>>
               ELSE Pieces(data)
          [] run.handler = "code" ->
               IF run.message_text = <<>>
               THEN <<CODE_USAGE>>
               ELSE Pieces(TCat(TCat(CODE_FENCE_OPEN,
                                     IF data = NONE THEN NONE_TEXT ELSE data),
                                CODE_FENCE_CLOSE))
          [] run.handler = "handle_voice" ->
               <<VOICE_PROCESSING,
                 TCat(TRANSCRIPTION_HEAD,
                      IF data = NONE THEN NONE_TEXT ELSE data)>>
          [] run.handler = "handle_photo" ->
               <<PHOTO_ANALYZING,
                 TCat(DESCRIPTION_HEAD,
                      IF data = NONE THEN NONE_TEXT ELSE data)>>

ExpectedHistory ==
    CASE run.handler = "handle_message" ->
           IF run.response.data = NONE
           THEN Last50(run.pre_hist)
           ELSE Last50(run.pre_hist)
                  \o <<[role |-> "user", content |-> run.message_text],
                       [role |-> "assistant",
                        content |-> run.response.data]>>
      [] run.handler = "clear_chat" -> <<>>
      [] OTHER -> run.pre_hist

ExpectedMode ==
    IF run.handler = "button_handler" THEN run.mode ELSE run.pre_mode

\* C12: whichever commits of a handler fail, a handler none of whose
\* awaited calls failed ends with the replies, the history and the mode
\* that follow from its input alone; no reply is added or left out and the
\* session is the same as with every commit succeeding.
C12_LogFailureIsSilent ==
    (HandlerDone /\ faults.call = run.pre_faults.call)
        => /\ Bodies(outbox) = ExpectedBodies
           /\ History(run.user) = ExpectedHistory
           /\ Mode(run.user) = ExpectedMode

C12_Witness ==
    /\ HandlerDone
    /\ run.handler = "handle_voice"
    /\ faults.commit > run.pre_faults.commit
    /\ faults.call = run.pre_faults.call
    /\ Len(outbox) = 2
    /\ Len(logged) = 1

C14_ButtonSetsModeOnly ==
    run.handler = "button_handler"
        => /\ History(run.user) = run.pre_hist
           /\ (run.pc = "done" /\ run.outcome = "ok")
                 => /\ run.mode \in MODES
                    /\ Mode(run.user) = run.mode
                    /\ user_settings[run.user] = run.mode
                    /\ Len(outbox) = 1
                    /\ outbox[1].kind = "text"
                    /\ StartsWith(outbox[1].body, MODE_SWITCHED)

C14_Witness ==
    /\ run.handler = "button_handler"
    /\ run.pc = "done"
    /\ run.outcome = "ok"
    /\ run.pre_hist # <<>>
    /\ run.pre_mode = "image"
    /\ Mode(run.user) = "voice"
    /\ Len(outbox) = 1

\* the concatenation of a sequence of texts
RECURSIVE Concat(_)
Concat(texts) ==
    IF Len(texts) = 0 THEN <<>>
    ELSE IF Len(texts) = 1 THEN texts[1]
    ELSE TCat(Concat(SubSeq(texts, 1, Len(texts) \div 2)),
              Concat(SubSeq(texts, Len(texts) \div 2 + 1, Len(texts))))

SplitDone ==
    /\ run.handler = "split_long_message"
    /\ run.pc = "done"
    /\ run.outcome = "ok"

\* C15: split_long_message sends a text of L characters in exactly
\* ceil(L / 4096) messages, none when L = 0, each of at most 4096
\* characters, whose bodies put end to end in the order sent are the text;
\* while it is sending, the bodies sent so far are the first characters of
\* the text.
C15_SplitRoundTrip ==
    run.handler = "split_long_message"
        => /\ \A k \in DOMAIN outbox : /\ outbox[k].kind = "text"
                                       /\ TLen(outbox[k].body) <= 4096
                                       /\ TLen(outbox[k].body) > 0
           /\ Concat(Bodies(outbox))
                = TTake(run.text, TLen(Concat(Bodies(outbox))))
           /\ SplitDone
                 => /\ 4096 * Len(outbox) >= TLen(run.text)
                    /\ 4096 * (Len(outbox) - 1) < TLen(run.text)
                    /\ (TLen(run.text) = 0 => Len(outbox) = 0)
                    /\ Concat(Bodies(outbox)) = run.text

C15_Witness ==
    /\ SplitDone
    /\ TLen(run.text) = 8192
    /\ Len(run.text) = 3
    /\ Len(outbox) = 2

InMedia == run.handler \in {"handle_voice", "handle_photo"}

\* C16: whatever mode is stored for the user, the handler of a voice
\* message calls transcription and the handler of a photo calls
\* captioning, once the file is downloaded and never anything else; at
\* every step of these handlers the user's mode and history are the ones
\* the user had before the message.
C16_MediaBypassesMode ==
    InMedia
        => /\ History(run.user) = run.pre_hist
           /\ Mode(run.user) = run.pre_mode
           /\ Len(calls) <= 1
           /\ (run.pc = "reply_result" \/ run.outcome = "ok")
                 => Len(calls) = 1
           /\ \A k \in DOMAIN calls :
                 IF run.handler = "handle_voice"
                 THEN /\ calls[k].fn = "transcribe_audio"
                      /\ calls[k].profile = "whisper_stt"
                 ELSE /\ calls[k].fn = "image_to_text"
                      /\ calls[k].profile = "image_captioning"

C16_Witness ==
    /\ run.handler = "handle_photo"
    /\ run.pc = "done"
    /\ run.outcome = "ok"
    /\ run.pre_mode = "voice"
    /\ run.pre_hist # <<>>
    /\ Len(calls) = 1
    /\ calls[1].fn = "image_to_text"
    /\ Len(outbox) = 2

GATEWAY_CALLS ==
    {"ask_cloudflare_ai", "generate_image", "transcribe_audio",
     "image_to_text"}

\* C17: whatever the remote call does, the value a gateway function
\* returns can be displayed: it is of kind text or image and its data is a
\* text, never None.
C17_AlwaysDisplayable ==
    (run.handler \in GATEWAY_CALLS /\ run.pc = "done")
        => /\ run.response.type \in {"text", "image"}
           /\ run.response.data # NONE

NoArgument ==
    /\ run.handler \in {"translate", "summarize", "code"}
    /\ run.message_text = <<>>

UsageReminder ==
    CASE run.handler = "translate" -> TRANSLATE_USAGE
      [] run.handler = "summarize" -> SUMMARIZE_USAGE
      [] run.handler = "code" -> CODE_USAGE

FailureMessages ==
    {TRANSLATE_ERROR, SUMMARIZE_ERROR, CODE_ERROR}

\* C18: /translate, /summarize and /code given no text make no gateway
\* call and leave the user's history and mode as they were; when the send
\* of the reply succeeds the handler ends with exactly one message, the
\* usage reminder of the command, and without its failure message.
C18_UsageReminder ==
    NoArgument
        => /\ calls = <<>>
           /\ History(run.user) = run.pre_hist
           /\ Mode(run.user) = run.pre_mode
           /\ (run.pc = "done" /\ faults.call = run.pre_faults.call)
                 => /\ run.outcome = "ok"
                    /\ outbox = <<[kind |-> "text", body |-> UsageReminder,
                                   caption |-> <<>>]>>
           /\ faults.call = run.pre_faults.call
                 => \A k \in DOMAIN outbox :
                       outbox[k].body \notin FailureMessages

C18_Witness ==
    /\ NoArgument
    /\ run.handler = "code"
    /\ run.pc = "done"
    /\ run.outcome = "ok"
    /\ run.pre_hist # <<>>
    /\ Len(outbox) = 1
    /\ outbox[1].body = CODE_USAGE

\* the lower-case spelling of the five task names and their models
KnownTask(task) ==
    CASE task = Str(<<"c", "h", "a", "t">>) -> "llama3"
      [] task = Str(<<"c", "o", "d", "e">>) -> "qwancoder"
      [] task = Str(<<"s", "u", "m", "m", "a", "r", "y">>)
           -> "bart_summarizer"
      [] task = Str(<<"s", "p", "e", "e", "c", "h", "_", "t", "o", "_", "t",
                      "e", "x", "t">>) -> "whisper_stt"
      [] task = Str(<<"i", "m", "a", "g", "e", "_", "t", "o", "_", "t", "e",
                      "x", "t">>) -> "image_captioning"
      [] OTHER -> "unknown"

\* C19: select_model_by_task gives each of the five task names, in any
\* letter case, its model and every other name the chat model llama3;
\* ask_cloudflare_ai called with a model name that is not one of the five
\* configured profiles makes a chat-completion request, the one with a
\* messages payload, on the llama3 profile.
C19_UnknownNamesFallBack ==
    /\ run.handler = "select_model_by_task"
          => LET known == KnownTask(Lower(calls[1].task))
             IN  calls[1].model = IF known = "unknown" THEN "llama3"
                                  ELSE known
    /\ (/\ run.handler = "ask_cloudflare_ai"
        /\ calls[1].model \notin {"llama3", "qwancoder", "bart_summarizer",
                                  "whisper_stt", "image_captioning"})
          => /\ calls[1].profile = "llama3"
             /\ calls[1].task = "chat_completion"

C19_Witness ==
    /\ run.handler = "select_model_by_task"
    /\ calls[1].task = Str(<<"C", "o", "d", "e">>)
    /\ calls[1].model = "qwancoder"

\* C20: every user's history is a sequence of complete exchanges: its
\* length is even, the entries at odd positions are user turns and those
\* at even positions assistant turns, also right after it was cut to its
\* last 50 entries.
C20_CompleteExchanges ==
    \A u \in Users :
        /\ Len(History(u)) % 2 = 0
        /\ \A k \in DOMAIN History(u) :
              History(u)[k].role = IF k % 2 = 1 THEN "user" ELSE "assistant"

C20_Witness ==
    \E u \in Users :
        /\ Len(History(u)) = 52
        /\ Len(appended[u]) = 54
        /\ History(u)[1] = appended[u][3]
        /\ History(u)[1].role = "user"
        /\ History(u)[52].role = "assistant"

\* what the stores hold for user u: whether there is an entry, and its value
Session(hists, modes, u) ==
    [history |-> IF u \in DOMAIN hists THEN <<hists[u]>> ELSE <<>>,
     mode |-> IF u \in DOMAIN modes THEN <<modes[u]>> ELSE <<>>]

\* C21: sessions are isolated per user: a step of a handler that serves
\* one user (a text message, a voice note, a photo, a command or a button
\* press, at any of its awaits) leaves the history entry and the mode
\* entry of every other user as they were, in whatever order the updates
\* of the users are delivered.
C21_SessionsIsolated ==
    [][\A b \in Users :
          b # run'.user
              => Session(user_histories', user_settings', b)
                     = Session(user_histories, user_settings, b)]_vars

\* a second user's handler has appended to that user's history after the
\* same user changed mode, while the first user holds a history and a mode
C21_Witness ==
    /\ run.pc = "done"
    /\ run.user # FirstUser
    /\ History(run.user) # run.pre_hist
    /\ Mode(run.user) # "chat"
    /\ History(FirstUser) = Prefilled(1)
    /\ FirstUser \in DOMAIN user_settings
    /\ user_settings[FirstUser] = "image"
    /\ Mode(run.user) # Mode(FirstUser)

\* C22: the size cap of every chat request, min(1024, context budget
\* - floor(len(str(messages)) / 4) - 100) with messages the stored history
\* followed by the new user turn, is at least 1, however large the
\* history and the prompt are.
C22_CapAtLeastOne ==
    \A k \in DOMAIN calls :
        ChatCompletion(calls[k]) => calls[k].max_tokens >= 1

====
